---- MODULE Spec2Model ----
(***************************************************************************)
(* Model of the metric engines of butterygg/metric-report.                 *)
(*                                                                         *)
(* The repository holds one engine per question.  Four of them are         *)
(* modelled here, each as a pipeline whose stages are the steps of its     *)
(* source:                                                                 *)
(*   "hype"    the HYPE/USDC 12 h TWAP CLI (src/unnamed/part_001)          *)
(*   "binance" the Binance 12 h TWAP CLI (src/2025-10-fomc/_spec/          *)
(*             01-binance-twap.md, its pseudocode of section 11)           *)
(*   "cmc"     the CoinMarketCap median metric                             *)
(*             (src/2025-11-shortlived.btc-us-shutdown-ends/spec.md)       *)
(*   "tvl"     the trailing-average TVL scripts (src/node/index.ts and its *)
(*             later version)                                              *)
(* A fifth policy, "calc", applies one arithmetic step of these engines    *)
(* (unit detection, anchor capping, half-up rounding, ceiling, median) to   *)
(* one input.                                                              *)
(*                                                                         *)
(* Times of hype and binance are milliseconds counted from a reference     *)
(* instant that is a whole minute, so that every value fits the model      *)
(* checker's integers; times of cmc and tvl are epoch seconds.  Prices are *)
(* exact decimals, held as an integer number of ticks of 1/PriceScale.     *)
(***************************************************************************)
EXTENDS Integers, Sequences, FiniteSets, TLC

VARIABLES
  policy,      \* which engine this behaviour runs
  \* ---- hype ----
  h_rules,     \* the time rules in force (cadence, cooldown, slots, maxGap, grace)
  h_Td,        \* decision time T_d given by the caller
  h_now,       \* the clock when the tool is started
  h_allowEarly,\* the --allow-early flag
  h_market,    \* the exchange's 1-cadence candles: absolute slot number -> close (0: none)
  h_pc,        \* position of the run
  h_Ts, h_Te, h_earliest,   \* observation start, end, earliest answerable time
  h_candles,   \* candles.json: the candles fetched for [T_s, T_e)
  h_seed,      \* the candle fetched for [T_s - 1 cadence, T_s), if any
  h_closes,    \* closes.csv: one row per grid minute
  h_twap,      \* the TWAP as an exact fraction of ticks
  h_stdout,    \* lines printed on stdout
  h_status,    \* message of the run
  h_exit       \* exit code

hvars == <<h_rules, h_Td, h_now, h_allowEarly, h_market, h_pc, h_Ts, h_Te,
           h_earliest, h_candles, h_seed, h_closes, h_twap, h_stdout,
           h_status, h_exit>>

VARIABLES
  \* ---- binance: two runs, 1 and 2, over the same persisted raw klines ----
  b_args,      \* the command line: --symbol, and the window flags given
  b_rules,     \* START_MS, END_OPEN_MS, INTERVAL_MS, LIMIT
  b_klines,    \* klines_raw.json: the klines returned by GET /api/v3/klines
  b_now,       \* now_ms of each run
  b_pc,        \* position of each run
  b_requested, \* whether the run has sent a klines request
  b_effEnd,    \* effective_end_open_ms
  b_observed,  \* the post-filtered, sorted klines
  b_expected,  \* expected_partial_count
  b_contiguous,\* contiguous
  b_missing,   \* missing_open_times_ms
  b_mean,      \* twap_mean as an exact fraction of ticks, or null
  b_result,    \* result_integer_times_100, or null
  b_complete,  \* complete
  b_stdout,    \* lines printed on stdout
  b_exit       \* exit code

bvars == <<b_args, b_rules, b_klines, b_now, b_pc, b_requested, b_effEnd, b_observed, b_expected,
           b_contiguous, b_missing, b_mean, b_result, b_complete, b_stdout,
           b_exit>>

VARIABLES
  \* ---- cmc ----
  c_arg,       \* --decision-time-epoch as given by the operator, or null
  c_pc,        \* position of the run
  c_decision,  \* decision_time_epoch
  c_start,     \* WINDOW_START
  c_end,       \* WINDOW_END
  c_requested, \* whether the chart endpoint has been asked
  c_points,    \* data.points as received, in arrival order
  c_samples,   \* the (ts, price) pairs after normalizing
  c_median,    \* median_price as an exact fraction of ticks
  c_result,    \* result_integer_times_100
  c_stdout,    \* lines printed on stdout
  c_error,     \* why the run failed, "" when it did not
  c_exit       \* exit code

cvars == <<c_arg, c_pc, c_decision, c_start, c_end, c_requested, c_points,
           c_samples, c_median, c_result, c_stdout, c_error, c_exit>>

VARIABLES
  \* ---- tvl ----
  t_script,    \* which of the two scripts runs: "index" or "later"
  t_pc,        \* position in main()
  t_i,         \* number of the project in turn
  t_data,      \* protocolData: chainTvls of the response
  t_tEnd,      \* t_end of the project in turn, null until computed
  t_tStart,    \* t_start of the project in turn, null until computed
  t_results,   \* results
  t_csvRows,   \* csvRows
  t_csvFile    \* the CSV file written, or null

tvars == <<t_script, t_pc, t_i, t_data, t_tEnd, t_tStart, t_results,
           t_csvRows, t_csvFile>>

\* The arithmetic of the engines, applied on its own to one input.
VARIABLES
  f_op,        \* the operation applied
  f_arg,       \* its input
  f_pc,        \* "ready" before the operation, "applied" after it
  f_out        \* its result

fvars == <<f_op, f_arg, f_pc, f_out>>

vars == <<policy, hvars, bvars, cvars, tvars, fvars>>

----------------------------------------------------------------------------
(* Arithmetic shared by the engines *)

\* Ticks per price unit: prices are decimal strings with three decimals.
PriceScale == 1000

\* A minimum that always takes the bound.
MinBound(a, b) == b
\* min(a, b)
Min(a, b) == IF a <= b THEN a ELSE b

\* Sum of f[lo..hi], split in halves so that long grids do not nest deeply.
RECURSIVE SumRange(_, _, _)
SumRange(f, lo, hi) ==
  IF lo > hi THEN 0
  ELSE IF lo = hi THEN f[lo]
  ELSE LET mid == (lo + hi) \div 2
       IN SumRange(f, lo, mid) + SumRange(f, mid + 1, hi)

\* A line of stdout: an integer, the word null, or a status text.
IntLine(n) == [kind |-> "int", n |-> n]
NullLine == [kind |-> "null", n |-> 0]
StatusLine == [kind |-> "status", n |-> 0]

NoCandle == [t |-> -1, c |-> 0]
NoFraction == [num |-> 0, den |-> 1]

\* A value that may be null.
Null == [null |-> TRUE, val |-> 0]
Some(x) == [null |-> FALSE, val |-> x]

\* The engines that do not run in a behaviour stay idle.
HypeIdle ==
  /\ h_rules = [cadence |-> 1] /\ h_Td = 0 /\ h_now = 0 /\ h_allowEarly = FALSE
  /\ h_market = [m \in {} |-> 0]
  /\ h_pc = "off" /\ h_Ts = 0 /\ h_Te = 0 /\ h_earliest = 0
  /\ h_candles = [t \in {} |-> 0] /\ h_seed = NoCandle /\ h_closes = <<>>
  /\ h_twap = NoFraction /\ h_stdout = <<>> /\ h_status = "" /\ h_exit = 0

BinanceIdle ==
  /\ b_args = <<>> /\ b_requested = <<>>
  /\ b_rules = [interval |-> 1] /\ b_klines = <<>>
  /\ b_now = <<>> /\ b_pc = <<>> /\ b_effEnd = <<>> /\ b_observed = <<>>
  /\ b_expected = <<>> /\ b_contiguous = <<>> /\ b_missing = <<>>
  /\ b_mean = <<>> /\ b_result = <<>> /\ b_complete = <<>>
  /\ b_stdout = <<>> /\ b_exit = <<>>

CmcIdle ==
  /\ c_arg = Null /\ c_pc = "off" /\ c_decision = 0 /\ c_start = 0 /\ c_end = 0
  /\ c_requested = FALSE /\ c_points = <<>> /\ c_samples = <<>>
  /\ c_median = NoFraction /\ c_result = Null /\ c_stdout = <<>>
  /\ c_error = "" /\ c_exit = 0

TvlIdle ==
  /\ t_script = "" /\ t_pc = "off" /\ t_i = 0 /\ t_data = <<>>
  /\ t_tEnd = Null /\ t_tStart = Null /\ t_results = <<>>
  /\ t_csvRows = <<>> /\ t_csvFile = Null

CalcIdle == f_op = "" /\ f_arg = <<>> /\ f_pc = "off" /\ f_out = <<>>

\* A rounding that resolves ties to the even integer.
RoundHalfEven(num, den) ==
  IF 2 * (num % den) = den /\ (num \div den) % 2 = 0 THEN num \div den
  ELSE (2 * num + den) \div (2 * den)
\* A rounding that drops the fraction instead: floor(x).
RoundHalfUpFloor(num, den) == num \div den
\* round_half_up(x) = floor(x + 0.5) for x = num/den >= 0, in exact arithmetic.
RoundHalfUp(num, den) == (2 * num + den) \div (2 * den)

\* CENTS = round_half_up(TWAP * 100), TWAP = sum/n ticks = sum/(n*PriceScale) units.
Cents(sum, n) == RoundHalfUp(100 * sum, n * PriceScale)

----------------------------------------------------------------------------
(* The HYPE/USDC 12 h TWAP engine (src/unnamed/part_001) *)

\* One minute, in milliseconds; the cooldown, the observation length, the
\* longest run of missing minutes that is filled, and the wait after T_e.
MinuteMs == 60000
CooldownMinutes == 120
WindowMinutes == 720
MaxMissingRun == 60
EarliestDelayMinutes == 5

\* The rules of the source.
HypeRules ==
  [cadence |-> MinuteMs, cooldown |-> CooldownMinutes * MinuteMs,
   slots |-> WindowMinutes, maxGap |-> MaxMissingRun,
   grace |-> EarliestDelayMinutes * MinuteMs]

\* Scaled-down rules, on which every pattern of missing slots is enumerated.
\* The first is the three-slot window at cadence 1 with cooldown 0.
TrialSlots == 5
TrialMaxGap == 2
ScenarioRules == [cadence |-> 1, cooldown |-> 0, slots |-> 3,
                  maxGap |-> 2, grace |-> 1]
TrialRules == [cadence |-> 3, cooldown |-> 4, slots |-> TrialSlots,
               maxGap |-> TrialMaxGap, grace |-> 3]

RuleSets == {HypeRules, ScenarioRules, TrialRules}

\* A ceiling that moves an aligned instant to the next one.
CeilToGridAlwaysUp(t, g) == (t \div g + 1) * g
\* ceil to the next full grid instant; an aligned instant stays.
CeilToGrid(t, g) == IF t % g = 0 THEN t ELSE (t \div g + 1) * g

\* T_s = T_d + cooldown, ceiled to the grid; T_e = T_s + window; T_e + grace.
ObservationStart(Td, rules) == CeilToGrid(Td + rules.cooldown, rules.cadence)
ObservationEnd(Ts, rules) == Ts + rules.slots * rules.cadence
EarliestAnswerable(Te, rules) == Te + rules.grace

\* A grid that also holds T_e.
MinuteGridClosed(Ts, rules) ==
  [i \in 1..(rules.slots + 1) |-> Ts + (i - 1) * rules.cadence]
\* The minute grid [T_s, T_s + 1m, ..., T_e - 1m].
MinuteGrid(Ts, rules) ==
  [i \in 1..rules.slots |-> Ts + (i - 1) * rules.cadence]

\* candleSnapshot over [startTime, endTime), after pagination, mapped by t
\* (candle start): the exchange returns the candles it has.
CandleSnapshot(market, g, startTime, endTime, now) ==
  LET have == {m \in DOMAIN market :
                 /\ market[m] # 0
                 /\ startTime <= m * g /\ m * g < endTime
                 /\ m * g <= now}
  IN [t \in {m * g : m \in have} |-> market[t \div g]]

\* A fill that writes 0 for a missing minute instead of the previous close.
GridRowZeroFill(byT, t, prev) ==
  IF t \in DOMAIN byT
    THEN [t |-> t, close |-> byT[t], source |-> "actual", run |-> 0]
    ELSE [t |-> t, close |-> 0, source |-> "filled", run |-> prev.run + 1]
\* Rows lo..hi of the grid, carrying the previous available close forward.
\* prev is the row before lo (its close, and the run of missing minutes
\* ending there).
GridRow(byT, t, prev) ==
  IF t \in DOMAIN byT
    THEN [t |-> t, close |-> byT[t], source |-> "actual", run |-> 0]
    ELSE [t |-> t, close |-> prev.close, source |-> "filled",
          run |-> prev.run + 1]

RECURSIVE FillRange(_, _, _, _, _)
FillRange(byT, grid, lo, hi, prev) ==
  IF lo = hi THEN <<GridRow(byT, grid[lo], prev)>>
  ELSE LET mid == (lo + hi) \div 2
           left == FillRange(byT, grid, lo, mid, prev)
           right == FillRange(byT, grid, mid + 1, hi, left[Len(left)])
       IN left \o right

\* The seed of the carry-forward: the preceding minute's close, if fetched.
SeedRow(seed) == [t |-> seed.t, close |-> seed.c, source |-> "seed", run |-> 0]

FillGrid(byT, grid, seed) == FillRange(byT, grid, 1, Len(grid), SeedRow(seed))

\* A threshold that already aborts at exactly maxGap missing minutes.
TooManyMissingInclusive(rows, maxGap) == \E i \in 1..Len(rows) : rows[i].run >= maxGap
\* More than maxGap consecutive missing minutes.
TooManyMissing(rows, maxGap) == \E i \in 1..Len(rows) : rows[i].run > maxGap

\* closes.csv: one row per grid minute.
CsvRow(r) == [t |-> r.t, close |-> r.close, source |-> r.source]
CsvRows(rows) == [i \in 1..Len(rows) |-> CsvRow(rows[i])]

----------------------------------------------------------------------------
(* Inputs of a hype run *)

\* The first grid slot number a window can start at, for T_d = 0.
BaseSlot(rules) == CeilToGrid(rules.cooldown, rules.cadence) \div rules.cadence

\* Slot numbers the exchange may hold candles for: from the minute before
\* the earliest window to the last minute of the latest one.
MarketSlots(rules) == (BaseSlot(rules) - 1)..(BaseSlot(rules) + rules.slots)

\* Decision times: on a grid instant, just after, just before the next, the next.
DecisionTimes(rules) ==
  {0, 1, rules.cadence - 1, rules.cadence} \cap 0..rules.cadence

\* Closes, in ticks, under the scaled-down rules: 10 or 30 units in the
\* three-slot window, a close that differs from slot to slot otherwise.
ScenarioCloses == {10 * PriceScale, 30 * PriceScale}
TrialClose(m) == (10 + m) * PriceScale + 5 * m

\* Close of minute m under the source's rules: a few dollars, three decimals.
HypeClose(m) == 4000 + 5 * (m % 7)

\* Runs of missing minutes tried under the source's rules, as
\* <<first missing slot relative to the base slot, length>>.
MissingRuns ==
  {<<f, n>> : f \in {-1, 0, 1, 300},
              n \in {1, MaxMissingRun - 1, MaxMissingRun, MaxMissingRun + 1}}

Markets(rules) ==
  IF rules = HypeRules
    THEN { [m \in MarketSlots(rules) |->
              IF \E r \in runs : m - BaseSlot(rules) \in r[1]..(r[1] + r[2] - 1)
                THEN 0 ELSE HypeClose(m)] :
           runs \in {{}} \cup {{r} : r \in MissingRuns}
                         \cup {{<<0, 1>>, <<300, n>>} :
                                 n \in {MaxMissingRun, MaxMissingRun + 1}} }
    ELSE IF rules = ScenarioRules
    THEN [MarketSlots(rules) -> {0} \cup ScenarioCloses]
    ELSE { [m \in MarketSlots(rules) |-> IF m \in have THEN TrialClose(m) ELSE 0] :
           have \in SUBSET MarketSlots(rules) }

\* The clock: two grid steps into the earliest window, one step before its
\* earliest answerable time, the instant before that time, that time, or
\* two steps after it.
Clocks(rules) ==
  LET s0 == ObservationStart(0, rules)
      e0 == EarliestAnswerable(ObservationEnd(s0, rules), rules)
  IN {s0 + 2 * rules.cadence, e0 - rules.cadence, e0 - 1, e0,
      e0 + 2 * rules.cadence}

----------------------------------------------------------------------------
(* The run of the hype engine *)

InitHype ==
  /\ policy = "hype" /\ BinanceIdle /\ CmcIdle /\ TvlIdle /\ CalcIdle
  /\ h_rules \in RuleSets
  /\ h_Td \in DecisionTimes(h_rules)
  /\ h_now \in Clocks(h_rules)
  /\ h_allowEarly \in BOOLEAN
  /\ h_market \in Markets(h_rules)
  /\ h_pc = "start" /\ h_Ts = 0 /\ h_Te = 0 /\ h_earliest = 0
  /\ h_candles = [t \in {} |-> 0] /\ h_seed = NoCandle /\ h_closes = <<>>
  /\ h_twap = NoFraction /\ h_stdout = <<>> /\ h_status = "" /\ h_exit = 0

h_inputs == <<policy, h_rules, h_Td, h_now, h_allowEarly, h_market, bvars,
              cvars, tvars, fvars>>

\* A run that ends without an answer: a message, a non-zero exit code,
\* nothing on stdout.
HypeFail(message) ==
  /\ h_pc' = "failed" /\ h_status' = message /\ h_exit' = 1
  /\ UNCHANGED h_stdout

\* Section 2: the time anchors.
ResolveTimes ==
  /\ policy = "hype" /\ h_pc = "start"
  /\ h_Ts' = ObservationStart(h_Td, h_rules)
  /\ h_Te' = ObservationEnd(ObservationStart(h_Td, h_rules), h_rules)
  /\ h_earliest' = EarliestAnswerable(
                      ObservationEnd(ObservationStart(h_Td, h_rules), h_rules), h_rules)
  /\ h_pc' = "resolved"
  /\ UNCHANGED <<h_inputs, h_candles, h_seed, h_closes, h_twap, h_stdout,
                 h_status, h_exit>>

\* A guard that still refuses at the earliest answerable time itself.
TooSoonInclusive(now, earliest, allowEarly) == now <= earliest /\ ~allowEarly
\* Section 2, earliest answerable time: fail fast unless --allow-early.
TooSoon(now, earliest, allowEarly) == now < earliest /\ ~allowEarly

EarliestGuard ==
  /\ policy = "hype" /\ h_pc = "resolved"
  /\ IF TooSoon(h_now, h_earliest, h_allowEarly)
       THEN HypeFail("answered too soon")
       ELSE h_pc' = "ready" /\ UNCHANGED <<h_stdout, h_status, h_exit>>
  /\ UNCHANGED <<h_inputs, h_Ts, h_Te, h_earliest, h_candles, h_seed,
                 h_closes, h_twap>>

\* Section 3.2: the candles of [T_s, T_e).
FetchCandles ==
  /\ policy = "hype" /\ h_pc = "ready"
  /\ h_candles' = CandleSnapshot(h_market, h_rules.cadence, h_Ts, h_Te, h_now)
  /\ h_pc' = "fetched"
  /\ UNCHANGED <<h_inputs, h_Ts, h_Te, h_earliest, h_seed, h_closes, h_twap,
                 h_stdout, h_status, h_exit>>

\* Section 6: an HTTP failure ends the run with a non-zero exit code.
FetchFails ==
  /\ policy = "hype" /\ h_pc = "ready"
  /\ HypeFail("HTTP failure")
  /\ UNCHANGED <<h_inputs, h_Ts, h_Te, h_earliest, h_candles, h_seed,
                 h_closes, h_twap>>

\* A seed taken from the candle after T_s instead of the one before it.
PrecedingCandleBackfill(market, g, Ts, now) ==
  LET got == CandleSnapshot(market, g, Ts + g, Ts + 2 * g, now)
  IN IF Ts + g \in DOMAIN got THEN [t |-> Ts + g, c |-> got[Ts + g]]
     ELSE NoCandle
\* The candle of [T_s - 1 cadence, T_s), if the exchange has it.
PrecedingCandle(market, g, Ts, now) ==
  LET got == CandleSnapshot(market, g, Ts - g, Ts, now)
  IN IF Ts - g \in DOMAIN got THEN [t |-> Ts - g, c |-> got[Ts - g]]
     ELSE NoCandle

\* Section 4: the minute grid.  A missing first minute is seeded from the
\* preceding minute, or the run aborts; more than maxGap consecutive missing
\* minutes abort it; otherwise every minute gets its close or the previous
\* available one.
BuildGrid ==
  /\ policy = "hype" /\ h_pc = "fetched"
  /\ LET grid == MinuteGrid(h_Ts, h_rules)
         seed == IF grid[1] \in DOMAIN h_candles THEN NoCandle
                 ELSE PrecedingCandle(h_market, h_rules.cadence, h_Ts, h_now)
     IN /\ h_seed' = seed
        /\ IF grid[1] \notin DOMAIN h_candles /\ seed = NoCandle
             THEN HypeFail("not answerable yet") /\ UNCHANGED h_closes
             ELSE LET rows == FillGrid(h_candles, grid, seed)
                  IN IF TooManyMissing(rows, h_rules.maxGap)
                       THEN HypeFail("not answerable yet") /\ UNCHANGED h_closes
                       ELSE /\ h_closes' = CsvRows(rows)
                            /\ h_pc' = "filled"
                            /\ UNCHANGED <<h_stdout, h_status, h_exit>>
  /\ UNCHANGED <<h_inputs, h_Ts, h_Te, h_earliest, h_candles, h_twap>>

\* Section 5: TWAP = (1/n) * sum of the closes, kept exact.
Twap(closes) ==
  [num |-> SumRange([i \in 1..Len(closes) |-> closes[i].close], 1, Len(closes)),
   den |-> Len(closes)]

ComputeTwap ==
  /\ policy = "hype" /\ h_pc = "filled"
  /\ h_twap' = Twap(h_closes)
  /\ h_pc' = "averaged"
  /\ UNCHANGED <<h_inputs, h_Ts, h_Te, h_earliest, h_candles, h_seed,
                 h_closes, h_stdout, h_status, h_exit>>

\* Section 6: print only the final unsigned integer.
PrintCents ==
  /\ policy = "hype" /\ h_pc = "averaged"
  /\ h_stdout' = <<IntLine(Cents(h_twap.num, h_twap.den))>>
  /\ h_status' = "ok" /\ h_exit' = 0 /\ h_pc' = "done"
  /\ UNCHANGED <<h_inputs, h_Ts, h_Te, h_earliest, h_candles, h_seed,
                 h_closes, h_twap>>

NextHype ==
  \/ ResolveTimes
  \/ EarliestGuard
  \/ FetchCandles
  \/ FetchFails
  \/ BuildGrid
  \/ ComputeTwap
  \/ PrintCents

SpecHype == InitHype /\ [][NextHype]_vars

----------------------------------------------------------------------------
(* Properties of the hype engine *)

HypeResolved == policy = "hype" /\ h_pc \notin {"off", "start"}
HypeFilled == policy = "hype" /\ h_pc \in {"filled", "averaged", "done"}
HypeAborted ==
  policy = "hype" /\ h_pc = "failed" /\ h_status = "not answerable yet"

\* The grid minute of row i, and whether the exchange returned a candle for it.
RowTime(i) == h_Ts + (i - 1) * h_rules.cadence
RowHasCandle(i) == RowTime(i) \in DOMAIN h_candles

\* The close the exchange holds for the minute before T_s (0: none).
CloseBeforeStart ==
  LET m == (h_Ts - h_rules.cadence) \div h_rules.cadence
  IN IF m \in DOMAIN h_market THEN h_market[m] ELSE 0

\* Rows i..i+n-1 are all without a candle.
MissingFrom(i, n) == \A k \in 0..(n - 1) : ~RowHasCandle(i + k)
SomeRunLongerThan(n) ==
  \E i \in 1..(h_rules.slots - n) : MissingFrom(i, n + 1)

\* C3: in Offset+Duration mode the window is [ceil_to_grid(T+C),
\* ceil_to_grid(T+C)+D): the start is on the grid, is not before T+C, is
\* less than one grid step after it, equals T+C when that is aligned, and
\* the end is D after the start.
C3_WindowOffsetDuration ==
  HypeResolved =>
    LET x == h_Td + h_rules.cooldown
        g == h_rules.cadence
    IN /\ h_Ts % g = 0
       /\ h_Ts >= x
       /\ h_Ts - x < g
       /\ (x % g = 0 => h_Ts = x)
       /\ h_Te - h_Ts = h_rules.slots * g

\* A decision time one millisecond after a minute: the start moves up to the
\* next minute, 121 minutes after the reference.
C3_Witness ==
  /\ HypeResolved /\ h_rules = HypeRules /\ h_Td = 1
  /\ h_Ts = (CooldownMinutes + 1) * MinuteMs
  /\ h_Te = (CooldownMinutes + 1 + WindowMinutes) * MinuteMs

\* The raw points {slot 0: 10, slot 1: missing, slot 2: 30} of the
\* three-slot window at cadence 1, cooldown 0, anchor 0.
ScenarioInput ==
  /\ policy = "hype" /\ h_rules = ScenarioRules /\ h_Td = 0
  /\ h_market[0] = 10 * PriceScale /\ h_market[1] = 0
  /\ h_market[2] = 30 * PriceScale

\* C5: on those points the grid is [10 actual, 10 filled, 30 actual], the
\* mean is 50/3, and the integer printed is 1667.
C5_EndToEndScenario ==
  ScenarioInput =>
    /\ h_pc \in {"filled", "averaged", "done"} =>
         h_closes = << [t |-> 0, close |-> 10 * PriceScale, source |-> "actual"],
                       [t |-> 1, close |-> 10 * PriceScale, source |-> "filled"],
                       [t |-> 2, close |-> 30 * PriceScale, source |-> "actual"] >>
    /\ h_pc \in {"averaged", "done"} =>
         h_twap = [num |-> 50 * PriceScale, den |-> 3]
    /\ h_pc = "done" => h_stdout = <<IntLine(1667)>>
    /\ h_pc = "failed" => h_status # "not answerable yet"

C5_Witness == ScenarioInput /\ h_pc = "done" /\ h_stdout = <<IntLine(1667)>>

\* C6: the grid has one row per expected minute; a minute with a candle has
\* that candle's close and is marked actual; any other minute has the close
\* of the row before it (the seed minute for the first row) and is marked
\* filled.
C6_CarryForward ==
  HypeFilled =>
    /\ Len(h_closes) = h_rules.slots
    /\ \A i \in 1..Len(h_closes) :
         /\ h_closes[i].t = RowTime(i)
         /\ IF RowHasCandle(i)
              THEN /\ h_closes[i].source = "actual"
                   /\ h_closes[i].close = h_market[RowTime(i) \div h_rules.cadence]
              ELSE /\ h_closes[i].source = "filled"
                   /\ h_closes[i].close =
                        IF i = 1 THEN CloseBeforeStart ELSE h_closes[i - 1].close

\* A five-row grid in which only the third minute is missing: it takes the
\* second minute's close and is marked filled.
C6_Witness ==
  /\ HypeFilled /\ Len(h_closes) = 5
  /\ \A i \in 1..5 : (h_closes[i].source = "filled") <=> (i = 3)
  /\ h_closes[3].close = h_closes[2].close
  /\ h_closes[3].close # h_closes[4].close

\* The grid has been built or the run has aborted on it.
GridDecided == HypeFilled \/ HypeAborted

\* C7: when the first grid minute has no candle, the carry-forward is seeded
\* from the candle of the minute just before T_s; when the exchange has no
\* such candle the run aborts as not answerable yet and prints nothing.
C7_FirstSlotSeeding ==
  (GridDecided /\ ~RowHasCandle(1)) =>
    IF CloseBeforeStart # 0
      THEN /\ h_seed = [t |-> h_Ts - h_rules.cadence, c |-> CloseBeforeStart]
           /\ HypeFilled =>
                h_closes[1] = [t |-> h_Ts, close |-> CloseBeforeStart,
                               source |-> "filled"]
      ELSE /\ HypeAborted
           /\ h_stdout = <<>> /\ h_exit # 0 /\ h_closes = <<>>

\* The first minute is missing, the minute before T_s is there, the second
\* minute has another close: the first row is filled from the earlier one.
C7_Witness ==
  /\ HypeFilled /\ ~RowHasCandle(1) /\ RowHasCandle(2)
  /\ h_closes[1].source = "filled"
  /\ h_closes[1].close = CloseBeforeStart
  /\ h_closes[1].close # h_closes[2].close

\* C8 as stated: the run aborts as not answerable yet exactly when some run
\* of consecutive missing minutes is longer than the threshold.
C8_AbortIffLongRun ==
  GridDecided => (HypeAborted <=> SomeRunLongerThan(h_rules.maxGap))

\* C8, amended: the run aborts as not answerable yet exactly when some run of
\* consecutive missing minutes is longer than the threshold, or the first
\* minute is missing and the minute before it is not available; an aborted
\* run prints no integer.
C8_AbortConditions ==
  GridDecided =>
    /\ HypeAborted <=>
         \/ SomeRunLongerThan(h_rules.maxGap)
         \/ (~RowHasCandle(1) /\ CloseBeforeStart = 0)
    /\ HypeAborted => (h_stdout = <<>> /\ h_exit # 0)

\* Under the source's rules, exactly 60 consecutive minutes are missing
\* between two minutes with candles, and the grid is filled.
C8_Witness ==
  /\ HypeFilled /\ h_rules = HypeRules
  /\ \E i \in 2..(WindowMinutes - MaxMissingRun) :
       /\ RowHasCandle(i - 1) /\ RowHasCandle(i + MaxMissingRun)
       /\ MissingFrom(i, MaxMissingRun)
       /\ \A k \in 0..(MaxMissingRun - 1) :
            h_closes[i + k] = [t |-> RowTime(i + k),
                               close |-> h_closes[i - 1].close,
                               source |-> "filled"]

----------------------------------------------------------------------------
(* The Binance 12 h TWAP engine (src/2025-10-fomc/_spec/01-binance-twap.md) *)

\* The two runs that are stepped side by side.
Runs == {1, 2}

\* The window starts ten minutes after the reference instant; END_OPEN_MS is
\* the open time of the last included candle, 719 minutes later.
StartMinute == 10
ExpectedFinalCount == 720

\* window_start_ms and window_end_open_ms of the source, in whole seconds
\* (1761760800000 ms and 1761803940000 ms).
WindowStartSeconds == 1761760800
WindowEndOpenSeconds == 1761803940

\* The constants of the source's pseudocode, START_MS being moved to
\* StartMinute minutes after the reference instant and END_OPEN_MS with it.
BinanceRules ==
  [start |-> StartMinute * MinuteMs,
   endOpen |-> StartMinute * MinuteMs
                 + (WindowEndOpenSeconds - WindowStartSeconds) * 1000,
   interval |-> MinuteMs, limit |-> ExpectedFinalCount,
   finalCount |-> ExpectedFinalCount]

\* Scaled-down constants, on which every pattern of missing klines is
\* enumerated.
BinanceTrialCount == 3
BinanceTrialRules ==
  [start |-> 4, endOpen |-> 4 + (BinanceTrialCount - 1) * 2, interval |-> 2,
   limit |-> BinanceTrialCount, finalCount |-> BinanceTrialCount]

BinanceRuleSets == {BinanceRules, BinanceTrialRules}

\* close (index 4) of the kline of minute m, in ticks.
BinanceClose(m) == 2000 + 3 * (m % 11)
Kline(rules, m) ==
  [openTime |-> rules.start + m * rules.interval, close |-> BinanceClose(m)]

\* The i-th minute, counted from START_MS, that the exchange has a kline for.
NthPresent(i, absent) ==
  CHOOSE m \in (i - 1)..(i - 1 + Cardinality(absent)) :
    /\ m \notin absent
    /\ m - Cardinality({x \in absent : x < m}) = i - 1

\* GET /api/v3/klines?startTime=START_MS&limit=LIMIT: the first LIMIT klines
\* from START_MS on, in ascending order, of an exchange that holds `minutes`
\* minutes from START_MS except the absent ones.
HttpGetKlines(rules, absent, minutes) ==
  LET have == minutes - Cardinality(absent \cap 0..(minutes - 1))
  IN [i \in 1..Min(rules.limit, have) |-> Kline(rules, NthPresent(i, absent))]

\* floor_to_minute
FloorToMinute(ms, interval) == (ms \div interval) * interval

\* A bound at the open time of the minute that is still forming.
LastClosedOpenCurrent(now, rules) == FloorToMinute(now, rules.interval)
\* last_closed_open_ms and effective_end_open_ms
LastClosedOpen(now, rules) == FloorToMinute(now, rules.interval) - rules.interval
\* A bound that is not capped at END_OPEN_MS.
EffectiveEndOpenUncapped(now, rules) == LastClosedOpen(now, rules)
EffectiveEndOpen(now, rules) == Min(rules.endOpen, LastClosedOpen(now, rules))

\* sort_by_openTime
IsAscending(ks) == \A i \in 1..(Len(ks) - 1) : ks[i].openTime <= ks[i + 1].openTime
RankOf(ks, j) ==
  1 + Cardinality({k \in 1..Len(ks) :
                     \/ ks[k].openTime < ks[j].openTime
                     \/ (ks[k].openTime = ks[j].openTime /\ k < j)})
SortByOpenTime(ks) ==
  IF IsAscending(ks) THEN ks
  ELSE [i \in 1..Len(ks) |-> ks[CHOOSE j \in 1..Len(ks) : RankOf(ks, j) = i]]

\* observed = [k for k in klines if k.openTime <= effective_end_open_ms], sorted
PostFilter(klines, effEnd) ==
  SelectSeq(klines, LAMBDA k : k.openTime <= effEnd)
Observed(klines, effEnd, rules) ==
  IF effEnd < rules.start THEN <<>>
  ELSE SortByOpenTime(PostFilter(klines, effEnd))

\* A count of the minutes between the two ends, the last one left out.
ExpectedPartialCountExclusive(effEnd, rules) ==
  IF effEnd >= rules.start
    THEN (effEnd - rules.start) \div rules.interval
    ELSE 0
\* expected_partial_count
ExpectedPartialCount(effEnd, rules) ==
  IF effEnd >= rules.start
    THEN (effEnd - rules.start) \div rules.interval + 1
    ELSE 0

\* The contiguity loop: observed[i].openTime must equal START_MS + i*INTERVAL_MS.
Contiguous(observed, rules) ==
  \A i \in 1..Len(observed) :
    observed[i].openTime = rules.start + (i - 1) * rules.interval

\* The expected open times up to the effective end that are not among the
\* observed ones; built only when the loop found a mismatch.
OpenTimes(observed) == {observed[i].openTime : i \in 1..Len(observed)}
DiffExpected(opens, effEnd, rules) ==
  {t \in {rules.start + i * rules.interval :
            i \in 0..(ExpectedPartialCount(effEnd, rules) - 1)} : t \notin opens}
MissingOpenTimes(observed, effEnd, rules) ==
  IF Contiguous(observed, rules) THEN {}
  ELSE DiffExpected(OpenTimes(observed), effEnd, rules)

\* mean = sum(closes)/N and result = ROUND_HALF_UP(mean * 100); null when N = 0.
CloseSum(observed) ==
  SumRange([i \in 1..Len(observed) |-> observed[i].close], 1, Len(observed))
Mean(observed) ==
  IF Len(observed) = 0 THEN Null
  ELSE Some([num |-> CloseSum(observed), den |-> Len(observed)])
Result(observed) ==
  IF Len(observed) = 0 THEN Null
  ELSE Some(Cents(CloseSum(observed), Len(observed)))

\* complete = (N == 720) && (effective_end_open_ms == END_OPEN_MS)
Complete(n, effEnd, rules) == n = rules.finalCount /\ effEnd = rules.endOpen

----------------------------------------------------------------------------
(* Inputs of the binance runs *)

\* Minutes, counted from START_MS, without a kline on the exchange.
AbsentSets(rules) ==
  IF rules = BinanceRules
    THEN {{}, {0}, {5}, {5, 6}, {ExpectedFinalCount - 1}}
    ELSE SUBSET (0..rules.finalCount)

\* The exchange holds the klines of the first two minutes only (a payload
\* captured early in the window) or of two minutes more than the window.
Horizons(rules) == {2, rules.finalCount + 2}

Payloads(rules) ==
  {HttpGetKlines(rules, absent, minutes) :
     absent \in AbsentSets(rules), minutes \in Horizons(rules)}

\* The clocks: before the window opens; twice within the third minute of the
\* window; at the instant the last minute has closed; some minutes later.
BinanceClocks(rules) ==
  {rules.start - 1,
   rules.start + 2 * rules.interval, rules.start + 2 * rules.interval + 1,
   rules.endOpen + rules.interval,
   rules.endOpen + 3 * rules.interval + 1}

\* INPUT SYMBOL in {"BTCUSDT","ETHUSDT"}.
SymbolAllowList == {"BTCUSDT", "ETHUSDT"}

\* The window flags a command line may give.
WindowFlags == {"start", "end-open"}

\* A command line that accepts any symbol and any window flag.
ArgsAcceptedAlways(args) == TRUE
\* A command line is accepted when its symbol is on the allow-list and it
\* gives neither --start nor --end-open.
ArgsAccepted(args) ==
  args.symbol \in SymbolAllowList /\ args.overrides = {}

\* Exit codes of a rejected command line.
RejectCodes == {1, 2}

\* The command lines tried: each listed symbol and one unlisted, with and
\* without a window flag.
BinanceArgs ==
  {[symbol |-> "BTCUSDT", overrides |-> {}],
   [symbol |-> "ETHUSDT", overrides |-> {}],
   [symbol |-> "DOGEUSDT", overrides |-> {}],
   [symbol |-> "BTCUSDT", overrides |-> {"start"}],
   [symbol |-> "ETHUSDT", overrides |-> {"end-open"}],
   [symbol |-> "DOGEUSDT", overrides |-> WindowFlags]}

InitBinance ==
  /\ policy = "binance" /\ HypeIdle /\ CmcIdle /\ TvlIdle /\ CalcIdle
  /\ b_args \in BinanceArgs
  /\ b_rules \in BinanceRuleSets
  /\ b_klines \in Payloads(b_rules)
  /\ b_now \in {c \in [Runs -> BinanceClocks(b_rules)] : c[1] <= c[2]}
  /\ b_pc = [r \in Runs |-> "args"]
  /\ b_requested = [r \in Runs |-> FALSE]
  /\ b_effEnd = [r \in Runs |-> 0]
  /\ b_observed = [r \in Runs |-> <<>>]
  /\ b_expected = [r \in Runs |-> 0]
  /\ b_contiguous = [r \in Runs |-> TRUE]
  /\ b_missing = [r \in Runs |-> {}]
  /\ b_mean = [r \in Runs |-> Null]
  /\ b_result = [r \in Runs |-> Null]
  /\ b_complete = [r \in Runs |-> FALSE]
  /\ b_stdout = [r \in Runs |-> <<>>]
  /\ b_exit = [r \in Runs |-> 0]

b_inputs == <<policy, hvars, cvars, tvars, fvars, b_args, b_rules, b_klines, b_now>>

----------------------------------------------------------------------------
(* A run of the binance engine: the pseudocode of section 11 *)

\* Section 2 and the flags of the CLI: the symbol is validated against the
\* allow-list (fail fast), and overriding --start or --end-open is rejected.
\* The exit code and the stdout of a rejected run are not fixed by the
\* documents: any non-zero code, and either nothing or the error form.
ValidateArgs(r) ==
  /\ policy = "binance" /\ b_pc[r] = "args"
  /\ IF ArgsAccepted(b_args)
       THEN /\ b_pc' = [b_pc EXCEPT ![r] = "start"]
            /\ UNCHANGED <<b_stdout, b_exit>>
       ELSE /\ b_pc' = [b_pc EXCEPT ![r] = "rejected"]
            /\ \E code \in RejectCodes : b_exit' = [b_exit EXCEPT ![r] = code]
            /\ \E out \in {<<>>, <<NullLine, StatusLine>>} :
                 b_stdout' = [b_stdout EXCEPT ![r] = out]
  /\ UNCHANGED <<b_inputs, b_requested, b_effEnd, b_observed, b_expected,
                 b_contiguous, b_missing, b_mean, b_result, b_complete>>

\* now_ms, last_closed_open_ms, effective_end_open_ms.
ReadClock(r) ==
  /\ policy = "binance" /\ b_pc[r] = "start"
  /\ b_effEnd' = [b_effEnd EXCEPT ![r] = EffectiveEndOpen(b_now[r], b_rules)]
  /\ b_pc' = [b_pc EXCEPT ![r] = "bounded"]
  /\ UNCHANGED <<b_inputs, b_requested, b_observed, b_expected, b_contiguous, b_missing,
                 b_mean, b_result, b_complete, b_stdout, b_exit>>

\* observed: nothing before the window opens, else the klines up to the
\* effective end; expected_partial_count.
FetchKlines(r) ==
  /\ policy = "binance" /\ b_pc[r] = "bounded"
  /\ b_observed' = [b_observed EXCEPT
                      ![r] = Observed(b_klines, b_effEnd[r], b_rules)]
  /\ b_expected' = [b_expected EXCEPT
                      ![r] = ExpectedPartialCount(b_effEnd[r], b_rules)]
  /\ b_requested' = [b_requested EXCEPT
                       ![r] = b_effEnd[r] >= b_rules.start]
  /\ b_pc' = [b_pc EXCEPT ![r] = "observed"]
  /\ UNCHANGED <<b_inputs, b_effEnd, b_contiguous, b_missing, b_mean,
                 b_result, b_complete, b_stdout, b_exit>>

\* Section 10: network failure after retries, exit code 3; section 9: an
\* error run prints null, then a short status line.
NetworkFails(r) ==
  /\ policy = "binance" /\ b_pc[r] = "bounded"
  /\ b_effEnd[r] >= b_rules.start
  /\ b_pc' = [b_pc EXCEPT ![r] = "failed"]
  /\ b_exit' = [b_exit EXCEPT ![r] = 3]
  /\ b_requested' = [b_requested EXCEPT ![r] = TRUE]
  /\ b_stdout' = [b_stdout EXCEPT ![r] = <<NullLine, StatusLine>>]
  /\ UNCHANGED <<b_inputs, b_effEnd, b_observed, b_expected, b_contiguous,
                 b_missing, b_mean, b_result, b_complete>>

\* The contiguity loop and the list of missing minutes.
CheckContiguity(r) ==
  /\ policy = "binance" /\ b_pc[r] = "observed"
  /\ b_contiguous' = [b_contiguous EXCEPT
                        ![r] = Contiguous(b_observed[r], b_rules)]
  /\ b_missing' = [b_missing EXCEPT
                     ![r] = MissingOpenTimes(b_observed[r], b_effEnd[r], b_rules)]
  /\ b_pc' = [b_pc EXCEPT ![r] = "validated"]
  /\ UNCHANGED <<b_inputs, b_requested, b_effEnd, b_observed, b_expected, b_mean,
                 b_result, b_complete, b_stdout, b_exit>>

\* N, mean, result, complete.
ComputeResult(r) ==
  /\ policy = "binance" /\ b_pc[r] = "validated"
  /\ b_mean' = [b_mean EXCEPT ![r] = Mean(b_observed[r])]
  /\ b_result' = [b_result EXCEPT ![r] = Result(b_observed[r])]
  /\ b_complete' = [b_complete EXCEPT
                      ![r] = Complete(Len(b_observed[r]), b_effEnd[r], b_rules)]
  /\ b_pc' = [b_pc EXCEPT ![r] = "computed"]
  /\ UNCHANGED <<b_inputs, b_requested, b_effEnd, b_observed, b_expected, b_contiguous,
                 b_missing, b_stdout, b_exit>>

\* Section 9: a complete and contiguous run prints only the integer; any other
\* run prints the integer or null, then a status line.
EmitStdout(result, complete, contiguous) ==
  IF complete /\ contiguous THEN <<IntLine(result.val)>>
  ELSE <<IF result.null THEN NullLine ELSE IntLine(result.val), StatusLine>>

\* if complete && !contiguous: exit 2; else emit and exit 0.
Finish(r) ==
  /\ policy = "binance" /\ b_pc[r] = "computed"
  /\ IF b_complete[r] /\ ~b_contiguous[r]
       THEN /\ b_exit' = [b_exit EXCEPT ![r] = 2]
            /\ UNCHANGED b_stdout
       ELSE /\ b_stdout' = [b_stdout EXCEPT
                              ![r] = EmitStdout(b_result[r], b_complete[r],
                                                b_contiguous[r])]
            /\ b_exit' = [b_exit EXCEPT ![r] = 0]
  /\ b_pc' = [b_pc EXCEPT ![r] = "done"]
  /\ UNCHANGED <<b_inputs, b_requested, b_effEnd, b_observed, b_expected, b_contiguous,
                 b_missing, b_mean, b_result, b_complete>>

NextBinance ==
  \E r \in Runs :
    \/ ValidateArgs(r)
    \/ ReadClock(r)
    \/ FetchKlines(r)
    \/ NetworkFails(r)
    \/ CheckContiguity(r)
    \/ ComputeResult(r)
    \/ Finish(r)

SpecBinance == InitBinance /\ [][NextBinance]_vars

----------------------------------------------------------------------------
(* Properties of the binance engine *)

\* What a run reports: the diagnostics, the exit code and stdout.
RunResult(r) ==
  [observed_count |-> Len(b_observed[r]), expected_count |-> b_expected[r],
   complete |-> b_complete[r], contiguous |-> b_contiguous[r],
   missing |-> b_missing[r], twap_mean |-> b_mean[r],
   result |-> b_result[r], exit |-> b_exit[r], stdout |-> b_stdout[r]]

BothDone == policy = "binance" /\ \A r \in Runs : b_pc[r] = "done"

\* The last minute of the window had closed when run r read the clock.
WindowElapsed(r) == b_now[r] >= b_rules.endOpen + b_rules.interval
SameMinute == b_now[1] \div b_rules.interval = b_now[2] \div b_rules.interval

\* The expected minutes of the whole window for which the payload has no kline.
MissingInPayload ==
  {t \in {b_rules.start + i * b_rules.interval : i \in 0..(b_rules.finalCount - 1)} :
     t \notin OpenTimes(b_klines)}

\* C1 as stated: two runs over the same raw payload and the same constants
\* report the same result.
C1_Determinism == BothDone => RunResult(1) = RunResult(2)

\* C1, amended: two runs over the same raw payload and the same constants
\* report the same result when both are made after the window has elapsed, or
\* both within the same minute.
C1_DeterminismSameBound ==
  (BothDone /\ (SameMinute \/ (WindowElapsed(1) /\ WindowElapsed(2)))) =>
    RunResult(1) = RunResult(2)

\* Two final runs at different times, over a payload that also holds a kline
\* after the window, print the same integer.
C1_Witness ==
  /\ BothDone /\ WindowElapsed(1) /\ WindowElapsed(2)
  /\ b_now[1] # b_now[2]
  /\ \E i \in 1..Len(b_klines) : b_klines[i].openTime > b_rules.endOpen
  /\ ~b_result[1].null
  /\ RunResult(1) = RunResult(2)

\* C9: a final run (the window has fully elapsed) with any gap at all, even
\* a single missing minute, ends with exit code 2, not with 0 or 3.
C9_StrictFinalZeroTolerance ==
  policy = "binance" =>
    \A r \in Runs :
      (b_pc[r] = "done" /\ WindowElapsed(r) /\ MissingInPayload # {}) =>
        (b_exit[r] = 2 /\ b_exit[r] \notin {0, 3})

\* C10: when effective_end_open_ms = window_end_open_ms and the klines miss
\* at least one of the expected minutes, the run exits with code 2, reports
\* contiguous = false and lists the missing minutes.
C10_InjectedGapAtFinal ==
  policy = "binance" =>
    \A r \in Runs :
      (b_pc[r] = "done" /\ b_effEnd[r] = b_rules.endOpen
         /\ MissingInPayload # {}) =>
        /\ b_exit[r] = 2
        /\ b_contiguous[r] = FALSE
        /\ b_missing[r] = MissingInPayload

----------------------------------------------------------------------------
(* The CoinMarketCap median engine                                          *)
(* (src/2025-11-shortlived.btc-us-shutdown-ends/spec.md)                    *)

\* Epoch seconds of 2025-11-07T00:00:00Z and of 2025-11-14T00:00:00Z.
EventWindowStart == 1762473600
MarketEndEpoch == 1763078400
\* WINDOW_START = decision + 43_200, WINDOW_END = WINDOW_START + 43_200.
WindowOffset == 43200
WindowLength == 43200
\* A timestamp above 10_000_000_000 is in milliseconds.  A raw timestamp is
\* held as thousands and units, [k, u] standing for 1000 * k + u.
UnitThresholdThousands == 10000000

Seconds(s) == [k |-> s \div 1000, u |-> s % 1000]
Millis(s, ms) == [k |-> s, u |-> ms]

\* A detection that takes 10_000_000_000 itself for milliseconds.
IsMillisecondsInclusive(ts) == ts.k >= UnitThresholdThousands
\* ts > 10_000_000_000
IsMilliseconds(ts) ==
  ts.k > UnitThresholdThousands \/ (ts.k = UnitThresholdThousands /\ ts.u > 0)

\* Step 1: milliseconds are divided by 1000 (integer floor), seconds are kept.
NormalizeTs(ts) == IF IsMilliseconds(ts) THEN Seconds(ts.k) ELSE ts

\* The number a timestamp stands for; the chart keys are below 2^31.
Value(ts) == 1000 * ts.k + ts.u

\* A price of the payload: a decimal number of ticks, null, or NaN.
Num(ticks) == [kind |-> "num", ticks |-> ticks]
NullPrice == [kind |-> "null", ticks |-> 0]
NaNPrice == [kind |-> "nan", ticks |-> 0]

\* Step 2: prefer point.v[0] if the vector exists, otherwise point.c.
ExtractPrice(point) == IF point.hasV THEN point.v0 ELSE point.c

\* A rejection of missing prices only.
RejectedOnlyMissing(price) == price.kind = "null"
\* A rejection that lets a price of zero through.
RejectedBelowZero(price) == price.kind # "num" \/ price.ticks < 0
\* Step 3: reject null, NaN and prices <= 0.
Rejected(price) == price.kind # "num" \/ price.ticks <= 0

\* A window that is closed at WINDOW_END.
InWindowClosed(ts, start, end) == start <= ts /\ ts <= end
\* Step 4: WINDOW_START <= ts < WINDOW_END.
InWindow(ts, start, end) == start <= ts /\ ts < end

\* Steps 1 and 2 of every point, in arrival order.
Extracted(points) ==
  [i \in 1..Len(points) |->
     [ts |-> Value(NormalizeTs(points[i].ts)), price |-> ExtractPrice(points[i])]]

\* Steps 3 and 4.
Surviving(pairs, start, end) ==
  SelectSeq(pairs, LAMBDA s : ~Rejected(s.price) /\ InWindow(s.ts, start, end))

\* A de-duplication that keeps the first sample for a given ts.
IsFirstOfTs(pairs, i) == \A j \in 1..(i - 1) : pairs[j].ts # pairs[i].ts
\* Section 8: keep the last sample for a given ts.
IsLastOfTs(pairs, i) == \A j \in (i + 1)..Len(pairs) : pairs[j].ts # pairs[i].ts
KeptIndices(pairs) == {i \in 1..Len(pairs) : IsLastOfTs(pairs, i)}

\* The kept pairs left in arrival order.
DedupArrivalOrder(pairs) ==
  LET kept == {i \in 1..Len(pairs) : IsLastOfTs(pairs, i)}
  IN [r \in 1..Cardinality(kept) |->
        pairs[CHOOSE i \in kept : Cardinality({j \in kept : j < i}) + 1 = r]]
\* Step 5: the pairs sorted by timestamp ascending.
TsRank(pairs, kept, i) == Cardinality({j \in kept : pairs[j].ts < pairs[i].ts}) + 1
DedupSorted(pairs) ==
  LET kept == KeptIndices(pairs)
  IN [r \in 1..Cardinality(kept) |->
        pairs[CHOOSE i \in kept : TsRank(pairs, kept, i) = r]]

Normalize(points, start, end) == DedupSorted(Surviving(Extracted(points), start, end))

\* Section 6: the prices in ascending order.
PriceRank(samples, i) ==
  Cardinality({j \in 1..Len(samples) :
                 \/ samples[j].price.ticks < samples[i].price.ticks
                 \/ (samples[j].price.ticks = samples[i].price.ticks /\ j < i)}) + 1
SortedPrices(samples) ==
  [r \in 1..Len(samples) |->
     samples[CHOOSE i \in 1..Len(samples) : PriceRank(samples, i) = r].price.ticks]

\* A median that takes the lower of the middle two for an even count.
MedianLowerMiddle(sorted) ==
  [num |-> sorted[(Len(sorted) + 1) \div 2], den |-> 1]
\* Odd n: sorted_prices[(n-1)/2]; even n: the average of the middle two.
Median(sorted) ==
  LET n == Len(sorted)
  IN IF n % 2 = 1 THEN [num |-> sorted[(n - 1) \div 2 + 1], den |-> 1]
     ELSE [num |-> sorted[n \div 2] + sorted[n \div 2 + 1], den |-> 2]

\* A rounding to the nearest integer instead.
CeilNearest(num, den) == (2 * num + den) \div (2 * den)
\* ceil(num/den) for num >= 0.
Ceil(num, den) == (num + den - 1) \div den

\* ceil(median_price * 100), the median being median.num/median.den ticks.
ResultTimes100(median) == Ceil(100 * median.num, median.den * PriceScale)

\* A validation that accepts the whole closed event window.
DecisionAcceptedUpTo(arg) ==
  ~arg.null /\ EventWindowStart <= arg.val /\ arg.val <= MarketEndEpoch
\* A validation that only requires the decision time to be given.
DecisionPresent(arg) == ~arg.null
\* Section 8: reject a decision time that is missing, is >= MARKET_END_EPOCH,
\* or lies outside the event window.
DecisionAccepted(arg) ==
  /\ ~arg.null
  /\ arg.val < MarketEndEpoch
  /\ EventWindowStart <= arg.val /\ arg.val <= MarketEndEpoch

----------------------------------------------------------------------------
(* The inputs of the cmc engine *)

\* The decision times tried: none, and epochs around the ends of the event
\* window and inside it.
DecisionArgs ==
  {Null} \cup
  {Some(d) : d \in {EventWindowStart - 1, EventWindowStart, 1763004240,
                    MarketEndEpoch - 1, MarketEndEpoch, MarketEndEpoch + 1}}

\* Longest payload tried.
MaxPoints == 3

\* The keys of data.points tried: seconds and milliseconds at and around the
\* two ends of the window, and two pairs that fall in the same second.
ChartKeys(start, end) ==
  {Seconds(start - 1), Seconds(start), Millis(start, 999),
   Seconds(start + 60), Millis(start + 60, 0),
   Millis(end - 1, 999), Seconds(end), Millis(end, 0)}

\* The points tried: a price in v[0], a price in c only, and the prices that
\* are rejected.
PointCases ==
  <<[hasV |-> TRUE, v0 |-> Num(20005), c |-> NullPrice],
    [hasV |-> TRUE, v0 |-> Num(10001), c |-> Num(99999)],
    [hasV |-> TRUE, v0 |-> Num(10010), c |-> NullPrice],
    [hasV |-> FALSE, v0 |-> NullPrice, c |-> Num(30000)],
    [hasV |-> TRUE, v0 |-> NullPrice, c |-> Num(10001)],
    [hasV |-> TRUE, v0 |-> NaNPrice, c |-> NullPrice],
    [hasV |-> TRUE, v0 |-> Num(0), c |-> NullPrice],
    [hasV |-> FALSE, v0 |-> NullPrice, c |-> Num(-10001)]>>

KeyLists(keys) ==
  {ks \in UNION {[1..n -> keys] : n \in 0..MaxPoints} :
     \A i, j \in 1..Len(ks) : i # j => ks[i] # ks[j]}

\* The payloads tried: every list of at most MaxPoints distinct keys, the
\* i-th point taking the cases in turn from an offset.
Charts(start, end) ==
  {[i \in 1..Len(ks) |->
      [ts |-> ks[i]] @@ PointCases[((i - 1 + shift) % Len(PointCases)) + 1]] :
     ks \in KeyLists(ChartKeys(start, end)), shift \in 0..(Len(PointCases) - 1)}

InitCmc ==
  /\ policy = "cmc" /\ HypeIdle /\ BinanceIdle /\ TvlIdle /\ CalcIdle
  /\ c_arg \in DecisionArgs
  /\ c_pc = "start" /\ c_decision = 0 /\ c_start = 0 /\ c_end = 0
  /\ c_requested = FALSE /\ c_points = <<>> /\ c_samples = <<>>
  /\ c_median = NoFraction /\ c_result = Null /\ c_stdout = <<>>
  /\ c_error = "" /\ c_exit = 0

c_inputs == <<policy, hvars, bvars, tvars, fvars, c_arg>>

----------------------------------------------------------------------------
(* A run of the cmc engine *)

\* Section 7: an error run prints null on stdout and exits non-zero.
CmcFail(error) ==
  /\ c_pc' = "failed" /\ c_error' = error /\ c_exit' = 1
  /\ c_stdout' = <<NullLine>>

\* Sections 2 and 8: the decision time is validated.
ValidateDecision ==
  /\ policy = "cmc" /\ c_pc = "start"
  /\ IF DecisionAccepted(c_arg)
       THEN c_pc' = "validated" /\ UNCHANGED <<c_error, c_exit, c_stdout>>
       ELSE CmcFail("validation")
  /\ UNCHANGED <<c_inputs, c_decision, c_start, c_end, c_requested, c_points,
                 c_samples, c_median, c_result>>

\* Section 3: decision_time_epoch, WINDOW_START, WINDOW_END.
DeriveWindow ==
  /\ policy = "cmc" /\ c_pc = "validated"
  /\ c_decision' = Min(c_arg.val, MarketEndEpoch)
  /\ c_start' = c_decision' + WindowOffset
  /\ c_end' = c_start' + WindowLength
  /\ c_pc' = "derived"
  /\ UNCHANGED <<c_inputs, c_requested, c_points, c_samples, c_median,
                 c_result, c_stdout, c_error, c_exit>>

\* Section 4: the chart endpoint answers the range request.
FetchChart ==
  /\ policy = "cmc" /\ c_pc = "derived"
  /\ \E points \in Charts(c_start, c_end) : c_points' = points
  /\ c_requested' = TRUE
  /\ c_pc' = "fetched"
  /\ UNCHANGED <<c_inputs, c_decision, c_start, c_end, c_samples, c_median,
                 c_result, c_stdout, c_error, c_exit>>

\* Section 4: all retries fail.
FetchExhausted ==
  /\ policy = "cmc" /\ c_pc = "derived"
  /\ c_requested' = TRUE
  /\ CmcFail("upstream")
  /\ UNCHANGED <<c_inputs, c_decision, c_start, c_end, c_points, c_samples,
                 c_median, c_result>>

\* Section 5: the samples; zero valid points end the run.
NormalizeSamples ==
  /\ policy = "cmc" /\ c_pc = "fetched"
  /\ c_samples' = Normalize(c_points, c_start, c_end)
  /\ IF Len(c_samples') = 0
       THEN CmcFail("data")
       ELSE c_pc' = "normalized" /\ UNCHANGED <<c_error, c_exit, c_stdout>>
  /\ UNCHANGED <<c_inputs, c_decision, c_start, c_end, c_requested, c_points,
                 c_median, c_result>>

\* Section 6: the median of the surviving prices.
ComputeMedian ==
  /\ policy = "cmc" /\ c_pc = "normalized"
  /\ c_median' = Median(SortedPrices(c_samples))
  /\ c_pc' = "aggregated"
  /\ UNCHANGED <<c_inputs, c_decision, c_start, c_end, c_requested, c_points,
                 c_samples, c_result, c_stdout, c_error, c_exit>>

\* Sections 6 and 7: the integer, alone on stdout.
EmitResult ==
  /\ policy = "cmc" /\ c_pc = "aggregated"
  /\ c_result' = Some(ResultTimes100(c_median))
  /\ c_stdout' = <<IntLine(c_result'.val)>>
  /\ c_exit' = 0
  /\ c_pc' = "done"
  /\ UNCHANGED <<c_inputs, c_decision, c_start, c_end, c_requested, c_points,
                 c_samples, c_median, c_error>>

NextCmc ==
  \/ ValidateDecision
  \/ DeriveWindow
  \/ FetchChart
  \/ FetchExhausted
  \/ NormalizeSamples
  \/ ComputeMedian
  \/ EmitResult

SpecCmc == InitCmc /\ [][NextCmc]_vars

----------------------------------------------------------------------------
(* Properties of the cmc engine *)

\* The samples of the run have been built.
CmcNormalized ==
  policy = "cmc" /\ (c_pc \in {"normalized", "aggregated", "done"} \/ c_error = "data")

RawTs(i) == Value(NormalizeTs(c_points[i].ts))
RawPriceValid(i) == ~Rejected(ExtractPrice(c_points[i]))
Retained(i) == \E k \in 1..Len(c_samples) : c_samples[k].ts = RawTs(i)

\* C4: a raw point with a valid value is retained if and only if its
\* normalized timestamp t satisfies start <= t < end; every sample comes from
\* such a point, so a point at exactly the start is kept and one at exactly
\* the end is dropped.
C4_HalfOpenFilter ==
  CmcNormalized =>
    /\ \A i \in 1..Len(c_points) :
         RawPriceValid(i) => (Retained(i) <=> (c_start <= RawTs(i) /\ RawTs(i) < c_end))
    /\ \A k \in 1..Len(c_samples) :
         /\ c_start <= c_samples[k].ts /\ c_samples[k].ts < c_end
         /\ \E i \in 1..Len(c_points) : RawPriceValid(i) /\ RawTs(i) = c_samples[k].ts

\* A payload with a valid point at exactly WINDOW_START, which is kept, and a
\* valid point at exactly WINDOW_END, which is dropped.
C4_Witness ==
  /\ CmcNormalized
  /\ \E i, j \in 1..Len(c_points) :
       /\ RawPriceValid(i) /\ RawTs(i) = c_start /\ Retained(i)
       /\ RawPriceValid(j) /\ RawTs(j) = c_end /\ ~Retained(j)

----------------------------------------------------------------------------
(* The TVL scripts: src/node/index.ts ("index") and the later version      *)
(* embedded in src/2025-11-shortlived.btc-us-venezuela-military-engagement/ *)
(* spec.md ("later").  Amounts are whole dollars; an average is held as    *)
(* the sum and the divisor of the division that returns it, and is turned  *)
(* into the double the division returns where the scripts go on from it.   *)

MAJOR_SUPERCHAIN_L2S ==
  {"BOB", "Base", "Ink", "Lisk", "Mode", "Optimism", "OP Mainnet",
   "Polynomial", "Soneium", "Swellchain", "Unichain", "World Chain"}

\* Epoch seconds of 2025-03-20T00:00:00Z and 2025-06-12T00:00:00Z.
METRIC_START_DATE == 1742428800
METRIC_END_DATE == 1749686400
TRAILING_DAYS == 7
DaySeconds == 86400

\* The first entries of PROJECTS of either script, in insertion order; the
\* model runs the first ProjectCount of them.
ProjectCount == 2
PROJECTS(script) ==
  IF script = "index"
    THEN <<[name |-> "Rocket Pool", slug |-> "rocket-pool"],
           [name |-> "SuperForm", slug |-> "superform"],
           [name |-> "Avantis", slug |-> "avantis"],
           [name |-> "Polynomial", slug |-> "polynomial-protocol"]>>
    ELSE <<[name |-> "Rocket Pool", slug |-> "rocket-pool"],
           [name |-> "SuperForm", slug |-> "superform"],
           [name |-> "Balancer", slug |-> "balancer"],
           [name |-> "Beets", slug |-> "beets"]>>
Projects(script) == SubSeq(PROJECTS(script), 1, ProjectCount)

\* A key of chainTvls is held as its parts between hyphens: 'Base-staking'
\* is <<"Base", "staking">>.
\* chain.split("-")[0]
SplitFirst(chain) == chain[1]
\* index.ts: MAJOR_SUPERCHAIN_L2S.has(chain.split("-")[0]);
\* later: MAJOR_SUPERCHAIN_L2S.has(chain).
Listed(script, chain) ==
  IF script = "index" THEN SplitFirst(chain) \in MAJOR_SUPERCHAIN_L2S
  ELSE Len(chain) = 1 /\ chain[1] \in MAJOR_SUPERCHAIN_L2S

\* tvlData.find((d) => d.date === targetTimestamp): the first match, if any.
Find(tvlData, targetTimestamp) ==
  LET hits == {i \in 1..Len(tvlData) : tvlData[i].date = targetTimestamp}
  IN IF hits = {} THEN Null
     ELSE Some(tvlData[CHOOSE i \in hits : \A j \in hits : i <= j].totalLiquidityUSD)

RECURSIVE SumOver(_, _)
SumOver(S, f) ==
  IF S = {} THEN 0
  ELSE LET x == CHOOSE y \in S : TRUE IN f[x] + SumOver(S \ {x}, f)

\* The listed chains that have an entry for the date.
ChainsWithEntry(script, data, date) ==
  {chain \in DOMAIN data :
     Listed(script, chain) /\ ~Find(data[chain].tvl, date).null}

DayTotal(script, data, date) ==
  SumOver(ChainsWithEntry(script, data, date),
          [chain \in DOMAIN data |-> Find(data[chain].tvl, date).val])

\* A total of the date over every chain of the response, listed or not.
getTvlOnDateAnyChain(data, date) ==
  LET chains == {chain \in DOMAIN data : ~Find(data[chain].tvl, date).null}
  IN SumOver(chains, [chain \in DOMAIN data |-> Find(data[chain].tvl, date).val])
\* index.ts: the total of the date, 0 when no chain has an entry.
getTvlOnDate(data, date) == DayTotal("index", data, date)

\* later: the total of the date, null when no chain has an entry.
getTvlOnDateLater(data, date) ==
  IF ChainsWithEntry("later", data, date) = {} THEN Null
  ELSE Some(DayTotal("later", data, date))

\* tvlData.find on a chain without a tvl array throws a TypeError.
Throws(script, data) ==
  \E chain \in DOMAIN data : Listed(script, chain) /\ ~data[chain].hasTvl

\* The dates endDate - i days, i = 0..TRAILING_DAYS-1.
TrailingDates(endDate) == {endDate - i * DaySeconds : i \in 0..(TRAILING_DAYS - 1)}

\* index.ts: totalTvlForPeriod / TRAILING_DAYS.
calculateTrailingAverageTvl(data, endDate) ==
  [num |-> SumOver(TrailingDates(endDate),
                   [d \in TrailingDates(endDate) |-> getTvlOnDate(data, d)]),
   den |-> TRAILING_DAYS]

\* later: the days counted by nonNullDays.
NonNullDates(data, endDate) ==
  {d \in TrailingDates(endDate) : ~getTvlOnDateLater(data, d).null}

\* An average that divides the total of the days with data by TRAILING_DAYS.
calculateTrailingAverageTvlOverSeven(data, endDate) ==
  [num |-> SumOver(NonNullDates(data, endDate),
                   [d \in NonNullDates(data, endDate) |->
                      getTvlOnDateLater(data, d).val]),
   den |-> TRAILING_DAYS]
\* later: nonNullDays > 0 ? totalTvlForPeriod / nonNullDays : 0.
calculateTrailingAverageTvlLater(data, endDate) ==
  LET days == NonNullDates(data, endDate)
  IN IF Cardinality(days) > 0
       THEN [num |-> SumOver(days, [d \in days |-> getTvlOnDateLater(data, d).val]),
             den |-> Cardinality(days)]
       ELSE [num |-> 0, den |-> 1]

TrailingAverage(script, data, endDate) ==
  IF script = "index" THEN calculateTrailingAverageTvl(data, endDate)
  ELSE calculateTrailingAverageTvlLater(data, endDate)

\* The scripts' numbers are IEEE 754 doubles: a significand of 53 bits.  A
\* double is sign * (mant read as a binary integer, most significant bit
\* first) * 2^exp; mant has 53 bits and starts with 1, except for zero.
SignificandBits == 53
Zero == [sign |-> 0, mant |-> <<>>, exp |-> 0]

Zeros(n) == [i \in 1..n |-> 0]

\* The binary digits of a natural number, and the number of a few digits.
RECURSIVE NatBits(_)
NatBits(n) == IF n = 0 THEN <<>> ELSE Append(NatBits(n \div 2), n % 2)
RECURSIVE BitsNat(_)
BitsNat(bits) ==
  IF bits = <<>> THEN 0
  ELSE 2 * BitsNat(SubSeq(bits, 1, Len(bits) - 1)) + bits[Len(bits)]

StripZeros(bits) ==
  LET ones == {i \in 1..Len(bits) : bits[i] = 1}
  IN IF ones = {} THEN <<>>
     ELSE SubSeq(bits, CHOOSE i \in ones : \A j \in ones : i <= j, Len(bits))

\* The digits of r/den after the binary point, r < den, until `need` digits
\* have been produced from the first 1 on; and the remainder left after k
\* digits.
RECURSIVE FractionBits(_, _, _, _)
FractionBits(r, den, need, started) ==
  IF need <= 0 THEN <<>>
  ELSE LET bit == IF 2 * r >= den THEN 1 ELSE 0
           on == started \/ bit = 1
       IN <<bit>> \o FractionBits(2 * r - bit * den, den,
                                  IF on THEN need - 1 ELSE need, on)
RECURSIVE RemainderAfter(_, _, _)
RemainderAfter(r, den, k) ==
  IF k = 0 THEN r ELSE RemainderAfter((2 * r) % den, den, k - 1)

\* bits + 1, for bits that are not all 1.
Increment(bits) ==
  LET z == CHOOSE i \in 1..Len(bits) :
             bits[i] = 0 /\ \A j \in (i + 1)..Len(bits) : bits[j] = 1
  IN [i \in 1..Len(bits) |-> IF i < z THEN bits[i] ELSE IF i = z THEN 1 ELSE 0]

\* Round to nearest, ties to even: the double nearest to
\* sign * (bits, plus a part of less than one unit when inexact) * 2^exp.
RoundedTo53(sign, b, inexact, exp) ==
  LET n == Len(b)
      head == SubSeq(b, 1, SignificandBits)
      up == /\ b[SignificandBits + 1] = 1
            /\ \/ inexact
               \/ \E i \in (SignificandBits + 2)..n : b[i] = 1
               \/ head[SignificandBits] = 1
      e == exp + (n - SignificandBits)
  IN IF n = 0 THEN Zero
     ELSE IF n <= SignificandBits
       THEN [sign |-> sign, mant |-> b \o Zeros(SignificandBits - n),
             exp |-> exp - (SignificandBits - n)]
     ELSE IF ~up THEN [sign |-> sign, mant |-> head, exp |-> e]
     ELSE IF \A i \in 1..SignificandBits : head[i] = 1
       THEN [sign |-> sign, mant |-> <<1>> \o Zeros(SignificandBits - 1),
             exp |-> e + 1]
     ELSE [sign |-> sign, mant |-> Increment(head), exp |-> e]
Rounded(sign, bits, inexact, exp) ==
  RoundedTo53(sign, StripZeros(bits), inexact, exp)

\* totalTvlForPeriod / days: the sum of whole amounts is exact, the division
\* returns the double nearest to num/den.  A quotient below 1 is computed
\* from num * 2^shift, which is at least den/2.
QuotientBits(sign, num, den, shift) ==
  LET whole == NatBits(num \div den)
      fraction == FractionBits(num % den, den,
                               SignificandBits + 2 - Len(whole), whole # <<>>)
  IN Rounded(sign, whole \o fraction,
             RemainderAfter(num % den, den, Len(fraction)) # 0,
             -Len(fraction) - shift)
Quotient(sign, num, den) ==
  IF Len(NatBits(den)) > Len(NatBits(num))
    THEN QuotientBits(sign, num * 2^(Len(NatBits(den)) - Len(NatBits(num))), den,
                      Len(NatBits(den)) - Len(NatBits(num)))
  ELSE QuotientBits(sign, num, den, 0)
DoubleOf(x) ==
  IF x.num = 0 THEN Zero
  ELSE IF x.num > 0 THEN Quotient(1, x.num, x.den)
  ELSE Quotient(-1, -x.num, x.den)

\* X > Y, X - Y for X >= Y, and X + Y, for digit sequences of one length.
Greater(X, Y) ==
  \E i \in 1..Len(X) : X[i] > Y[i] /\ \A j \in 1..(i - 1) : X[j] = Y[j]
Borrow(X, Y, i) ==
  IF \E j \in (i + 1)..Len(X) :
       X[j] < Y[j] /\ \A k \in (i + 1)..(j - 1) : X[k] = Y[k]
    THEN 1 ELSE 0
SubBits(X, Y) == [i \in 1..Len(X) |-> (X[i] - Y[i] - Borrow(X, Y, i)) % 2]
Carry(X, Y, i) ==
  IF \E j \in (i + 1)..Len(X) :
       X[j] + Y[j] = 2 /\ \A k \in (i + 1)..(j - 1) : X[k] + Y[k] = 1
    THEN 1 ELSE 0
AddBits(X, Y) ==
  [p \in 1..(Len(X) + 1) |->
     ((IF p = 1 THEN 0 ELSE X[p - 1] + Y[p - 1]) + Carry(X, Y, p - 1)) % 2]

\* The double subtraction of two significands brought to the exponent exp and
\* to one length.
Subtracted(signE, E, signS, S, exp) ==
  IF signE # signS THEN Rounded(signE, AddBits(E, S), FALSE, exp)
  ELSE IF E = S THEN Zero
  ELSE IF Greater(E, S) THEN Rounded(signE, SubBits(E, S), FALSE, exp)
  ELSE Rounded(-signE, SubBits(S, E), FALSE, exp)
Aligned(e, s, exp, len) ==
  Subtracted(e.sign, Zeros(len - SignificandBits - (e.exp - exp)) \o e.mant
                       \o Zeros(e.exp - exp),
             s.sign, Zeros(len - SignificandBits - (s.exp - exp)) \o s.mant
                       \o Zeros(s.exp - exp),
             exp)

\* t_end - t_start, on doubles.
Difference(e, s) ==
  IF s.sign = 0 THEN e
  ELSE IF e.sign = 0 THEN [s EXCEPT !.sign = -s.sign]
  ELSE IF e.exp <= s.exp
    THEN Aligned(e, s, e.exp, SignificandBits + (s.exp - e.exp))
  ELSE Aligned(e, s, s.exp, SignificandBits + (e.exp - s.exp))

\* Math.round of a double below 2^31 in magnitude: to the nearest integer,
\* halves toward +infinity.
RoundParts(sign, whole, fraction) ==
  IF sign > 0
    THEN BitsNat(whole) + (IF fraction # <<>> /\ fraction[1] = 1 THEN 1 ELSE 0)
  ELSE -(BitsNat(whole)
           + (IF /\ fraction # <<>> /\ fraction[1] = 1
                 /\ \E i \in 2..Len(fraction) : fraction[i] = 1
                THEN 1 ELSE 0))
MathRound(x) ==
  IF x.sign = 0 THEN 0
  ELSE IF x.exp >= 0 THEN x.sign * BitsNat(x.mant \o Zeros(x.exp))
  ELSE IF SignificandBits + x.exp <= 0
    THEN RoundParts(x.sign, <<>>, Zeros(-(SignificandBits + x.exp)) \o x.mant)
  ELSE RoundParts(x.sign, SubSeq(x.mant, 1, SignificandBits + x.exp),
                  SubSeq(x.mant, SignificandBits + x.exp + 1, SignificandBits))

----------------------------------------------------------------------------
(* The inputs of the TVL scripts *)

\* The dates of the two trailing periods, ascending.
PeriodDates ==
  [i \in 1..(2 * TRAILING_DAYS) |->
     IF i <= TRAILING_DAYS
       THEN METRIC_START_DATE - (TRAILING_DAYS - i) * DaySeconds
       ELSE METRIC_END_DATE - (2 * TRAILING_DAYS - i) * DaySeconds]

\* The tvl array of chain number c with an item on the dates numbered idx.
Series(c, idx) ==
  SelectSeq([i \in 1..(2 * TRAILING_DAYS) |->
               [date |-> PeriodDates[i], totalLiquidityUSD |-> 1000 * c + 10 * i]],
            LAMBDA item : \E i \in idx : PeriodDates[i] = item.date)

EveryDate == 1..(2 * TRAILING_DAYS)
EndPeriodOnly == (TRAILING_DAYS + 1)..(2 * TRAILING_DAYS)
\* A few dates, then a second item for the end date and an item that is not
\* at midnight.
SparseSeries(c) ==
  Series(c, {1, 2 * TRAILING_DAYS - 3, 2 * TRAILING_DAYS}) \o
  <<[date |-> METRIC_END_DATE, totalLiquidityUSD |-> 7],
    [date |-> METRIC_END_DATE - DaySeconds + 3600, totalLiquidityUSD |-> 9]>>

\* Six days of the start period, total 7, and the last three days of the end
\* period, total 8: the later script's averages are 7/6 and 8/3.
UnevenSeries ==
  [i \in 1..9 |->
     IF i <= 6
       THEN [date |-> PeriodDates[i],
             totalLiquidityUSD |-> IF i = 1 THEN 2 ELSE 1]
       ELSE [date |-> PeriodDates[i + 5],
             totalLiquidityUSD |-> IF i = 9 THEN 2 ELSE 3]]

WithTvl(tvl) == [hasTvl |-> TRUE, tvl |-> tvl]
WithoutTvl == [hasTvl |-> FALSE, tvl |-> <<>>]
NoChains == [chain \in {} |-> WithoutTvl]

BaseCases ==
  {NoChains, <<"Base">> :> WithTvl(Series(1, EveryDate)),
   <<"Base">> :> WithTvl(Series(1, EndPeriodOnly)),
   <<"Base">> :> WithTvl(SparseSeries(1)),
   <<"Base">> :> WithTvl(UnevenSeries)}
OptimismCases ==
  {NoChains, <<"Optimism">> :> WithTvl(Series(2, EveryDate)),
   <<"Optimism">> :> WithoutTvl}
StakingCases ==
  {NoChains, <<"Base", "staking">> :> WithTvl(Series(3, EveryDate))}

\* The responses tried: chainTvls with or without Base, Optimism and
\* Base-staking, and always with Ethereum, which is not listed.
Responses ==
  {b @@ o @@ s @@ (<<"Ethereum">> :> WithTvl(Series(4, EveryDate))) :
     b \in BaseCases, o \in OptimismCases, s \in StakingCases}

CsvHeader == [kind |-> "header"]

InitTvl ==
  /\ policy = "tvl" /\ HypeIdle /\ BinanceIdle /\ CmcIdle /\ CalcIdle
  /\ t_script \in {"index", "later"}
  /\ t_pc = "loop" /\ t_i = 1 /\ t_data = NoChains
  /\ t_tEnd = Null /\ t_tStart = Null
  /\ t_results = [slug \in {} |-> 0]
  /\ t_csvRows = IF t_script = "later" THEN <<CsvHeader>> ELSE <<>>
  /\ t_csvFile = Null

t_inputs == <<policy, hvars, bvars, cvars, fvars, t_script>>

----------------------------------------------------------------------------
(* main() of the TVL scripts *)

Project == Projects(t_script)[t_i]

\* A catch block that records the error and leaves the loop.
CatchErrorAndStop ==
  /\ t_results' = (Project.slug :> [kind |-> "error"]) @@ t_results
  /\ t_csvRows' = t_csvRows
  /\ t_i' = ProjectCount + 1
  /\ t_pc' = "loop"
\* The catch block: results[slug] = "Error processing project"; the later
\* script also pushes a row.
CatchError ==
  /\ t_results' = (Project.slug :> [kind |-> "error"]) @@ t_results
  /\ t_csvRows' = IF t_script = "later"
                    THEN Append(t_csvRows, [kind |-> "error", name |-> Project.name])
                    ELSE t_csvRows
  /\ t_i' = t_i + 1
  /\ t_pc' = "loop"

\* A new turn of the loop; await fetchProtocolData(slug) returns the response.
FetchProtocolData ==
  /\ policy = "tvl" /\ t_pc = "loop" /\ t_i <= ProjectCount
  /\ \E response \in Responses : t_data' = response
  /\ t_tEnd' = Null /\ t_tStart' = Null
  /\ t_pc' = "fetched"
  /\ UNCHANGED <<t_inputs, t_i, t_results, t_csvRows, t_csvFile>>

\* A new turn of the loop; await fetchProtocolData(slug) throws.
FetchThrows ==
  /\ policy = "tvl" /\ t_pc = "loop" /\ t_i <= ProjectCount
  /\ t_data' = NoChains /\ t_tEnd' = Null /\ t_tStart' = Null
  /\ CatchError
  /\ UNCHANGED <<t_inputs, t_csvFile>>

\* The rest of the try block: the two averages, their difference, the entry
\* of results and, in the later script, the row.
ResultEntry(script, tStart, tEnd) ==
  IF script = "index"
    THEN [kind |-> "number", difference |-> Difference(tEnd, tStart)]
    ELSE [kind |-> "object", start |-> tStart, end |-> tEnd,
          difference |-> Difference(tEnd, tStart)]
CsvRowOf(name, tStart, tEnd) ==
  [kind |-> "row", name |-> name, start |-> MathRound(tStart),
   end |-> MathRound(tEnd), difference |-> MathRound(Difference(tEnd, tStart))]

ProcessProject ==
  /\ policy = "tvl" /\ t_pc = "fetched"
  /\ IF Throws(t_script, t_data)
       THEN CatchError /\ UNCHANGED <<t_tEnd, t_tStart>>
       ELSE /\ t_tEnd' = Some(TrailingAverage(t_script, t_data, METRIC_END_DATE))
            /\ t_tStart' = Some(TrailingAverage(t_script, t_data, METRIC_START_DATE))
            /\ t_results' =
                 (Project.slug :> ResultEntry(t_script, DoubleOf(t_tStart'.val),
                                              DoubleOf(t_tEnd'.val)))
                   @@ t_results
            /\ t_csvRows' = IF t_script = "later"
                              THEN Append(t_csvRows,
                                          CsvRowOf(Project.name,
                                                   DoubleOf(t_tStart'.val),
                                                   DoubleOf(t_tEnd'.val)))
                              ELSE t_csvRows
            /\ t_i' = t_i + 1
            /\ t_pc' = "loop"
  /\ UNCHANGED <<t_inputs, t_data, t_csvFile>>

\* After the loop: the later script writes the CSV file; both print results.
PrintFinalResults ==
  /\ policy = "tvl" /\ t_pc = "loop" /\ t_i > ProjectCount
  /\ t_csvFile' = IF t_script = "later" THEN Some(t_csvRows) ELSE t_csvFile
  /\ t_pc' = "done"
  /\ UNCHANGED <<t_inputs, t_i, t_data, t_tEnd, t_tStart, t_results, t_csvRows>>

NextTvl ==
  \/ FetchProtocolData
  \/ FetchThrows
  \/ ProcessProject
  \/ PrintFinalResults

SpecTvl == InitTvl /\ [][NextTvl]_vars

----------------------------------------------------------------------------
(* The arithmetic steps applied on their own *)

\* Largest numerator, largest denominator and longest list tried.
MaxNum == 40
MaxDen == 3
MaxList == 4

\* Raw timestamps: seconds and milliseconds of the market end, and the
\* values at and next to 10_000_000_000.
UnitInputs ==
  {Seconds(0), Seconds(1), Seconds(MarketEndEpoch), Seconds(MarketEndEpoch + 1),
   Millis(MarketEndEpoch, 0), Millis(MarketEndEpoch, 1),
   Millis(MarketEndEpoch, 999),
   Millis(UnitThresholdThousands - 1, 999),
   Millis(UnitThresholdThousands, 0),
   Millis(UnitThresholdThousands, 1),
   Millis(UnitThresholdThousands, 999),
   Millis(UnitThresholdThousands + 1, 0)}

\* Quotients num/den, all the small ones.
SmallFractions == [num : 0..MaxNum, den : 1..MaxDen]

\* Means in ticks: 12.345 and its neighbours, a mean of three closes, and
\* the small quotients.
HalfUpInputs ==
  SmallFractions \cup
  {[num |-> 12345, den |-> 1], [num |-> 12335, den |-> 1],
   [num |-> 12344, den |-> 1], [num |-> 12346, den |-> 1],
   [num |-> 37034, den |-> 3], [num |-> 37036, den |-> 3]}

\* Scaled values: 100.001 and its neighbours, and the small quotients.
CeilInputs ==
  SmallFractions \cup
  {[num |-> 100001, den |-> 1000], [num |-> 100000, den |-> 1000],
   [num |-> 100999, den |-> 1000], [num |-> 1, den |-> 1000]}

\* Prices 1.000, 2.000, 3.000 and 4.000.
MedianPrices == {PriceScale * v : v \in 1..4}

\* Samples in timestamp order, of every length up to MaxList and with every
\* assignment of the prices.
MedianInputs ==
  UNION {{[i \in 1..n |-> [ts |-> i, price |-> Num(p[i])]] :
            p \in [1..n -> MedianPrices]} : n \in 1..MaxList}

\* The engagement-cutoff metric (venezuela spec.md lines 7-12): the window
\* is hard-coded, 12 to 24 hours after the cutoff, whatever the anchor.
WINDOW_START == 1763121600
WINDOW_END == 1763164800
\* DECISION_TIME is the market end; a --decision-time guard defaults to the
\* cutoff and still caps at MARKET_END.
ResolveAnchor(arg) ==
  IF arg.null THEN MarketEndEpoch ELSE Min(arg.val, MarketEndEpoch)
AnchoredWindow(anchor) ==
  [decision |-> anchor, start |-> WINDOW_START, end |-> WINDOW_END]

CalcInputs(op) ==
  CASE op = "normalize_ts" -> UnitInputs
    [] op = "resolve_anchor" -> DecisionArgs
    [] op = "half_up" -> HalfUpInputs
    [] op = "ceil" -> CeilInputs
    [] op = "median" -> MedianInputs

InitCalc ==
  /\ policy = "calc" /\ HypeIdle /\ BinanceIdle /\ CmcIdle /\ TvlIdle
  /\ f_op \in {"normalize_ts", "resolve_anchor", "half_up", "ceil", "median"}
  /\ f_arg \in CalcInputs(f_op)
  /\ f_pc = "ready" /\ f_out = <<>>

f_inputs == <<policy, hvars, bvars, cvars, tvars, f_op, f_arg>>

\* Step 1 of the normalization, on one raw timestamp.
ApplyNormalizeTs ==
  /\ policy = "calc" /\ f_pc = "ready" /\ f_op = "normalize_ts"
  /\ f_out' = NormalizeTs(f_arg)
  /\ f_pc' = "applied"
  /\ UNCHANGED f_inputs

\* The capped anchor and the hard-coded window, on one --decision-time.
ApplyResolveAnchor ==
  /\ policy = "calc" /\ f_pc = "ready" /\ f_op = "resolve_anchor"
  /\ f_out' = AnchoredWindow(ResolveAnchor(f_arg))
  /\ f_pc' = "applied"
  /\ UNCHANGED f_inputs

\* CENTS = round_half_up(TWAP * 100), on one mean.
ApplyHalfUp ==
  /\ policy = "calc" /\ f_pc = "ready" /\ f_op = "half_up"
  /\ f_out' = Cents(f_arg.num, f_arg.den)
  /\ f_pc' = "applied"
  /\ UNCHANGED f_inputs

\* ceil, on one scaled value.
ApplyCeil ==
  /\ policy = "calc" /\ f_pc = "ready" /\ f_op = "ceil"
  /\ f_out' = Ceil(f_arg.num, f_arg.den)
  /\ f_pc' = "applied"
  /\ UNCHANGED f_inputs

\* The median of the surviving price list.
ApplyMedian ==
  /\ policy = "calc" /\ f_pc = "ready" /\ f_op = "median"
  /\ f_out' = Median(SortedPrices(f_arg))
  /\ f_pc' = "applied"
  /\ UNCHANGED f_inputs

NextCalc ==
  \/ ApplyNormalizeTs
  \/ ApplyResolveAnchor
  \/ ApplyHalfUp
  \/ ApplyCeil
  \/ ApplyMedian

SpecCalc == InitCalc /\ [][NextCalc]_vars

----------------------------------------------------------------------------
(* All the engines *)

Init == InitHype \/ InitBinance \/ InitCmc \/ InitTvl \/ InitCalc
Next == NextHype \/ NextBinance \/ NextCmc \/ NextTvl \/ NextCalc
Spec == Init /\ [][Next]_vars

\* No listed chain has an entry on any date of the trailing period.
NoDataInPeriod(endDate) ==
  \A d \in TrailingDates(endDate) : ChainsWithEntry(t_script, t_data, d) = {}

\* C2: whenever the sample set left after filtering is empty, the run ends in
\* a data error: it yields neither 0 nor a null that passes for a success.
\* In the cmc engine no valid point lies in the window; in the hype engine no
\* candle lies in [T_s, T_e); in the binance engine no kline is observed; in
\* the TVL scripts no day of a trailing period has data.
C2_ZeroSampleGuard ==
  /\ (policy = "cmc" /\ c_pc \in {"done", "failed"} /\ c_requested
        /\ c_error # "upstream" /\ Len(c_samples) = 0) =>
       (c_error = "data" /\ c_exit # 0 /\ c_result.null /\ c_stdout = <<NullLine>>)
  /\ (policy = "hype" /\ h_pc \in {"filled", "averaged", "done"}) =>
       DOMAIN h_candles # {}
  /\ policy = "binance" =>
       \A r \in Runs :
         (b_pc[r] = "done" /\ Len(b_observed[r]) = 0) => b_exit[r] # 0
  /\ policy = "tvl" =>
       /\ NoDataInPeriod(METRIC_END_DATE) => t_tEnd.null
       /\ NoDataInPeriod(METRIC_START_DATE) => t_tStart.null

----------------------------------------------------------------------------
(* Properties of stdout, over all the engines *)

HasIntLine(out) == \E i \in 1..Len(out) : out[i].kind = "int"
OnlyTheInteger(out) == Len(out) = 1 /\ out[1].kind = "int"

\* The run is over, with a complete result and no failure.
EndedComplete ==
  \/ policy = "hype" /\ h_pc = "done"
  \/ policy = "cmc" /\ c_pc = "done"
EndedCompleteRun(r) ==
  policy = "binance" /\ b_pc[r] = "done" /\ b_exit[r] = 0
    /\ b_complete[r] /\ b_contiguous[r]

\* The run is over after a validation failure, zero samples, a gap abort or
\* the exhaustion of the upstream.
EndedFatal ==
  \/ policy = "hype" /\ h_pc = "failed"
  \/ policy = "cmc" /\ c_pc = "failed"
EndedFatalRun(r) ==
  policy = "binance" /\
    \/ b_pc[r] = "rejected"
    \/ b_pc[r] = "failed"
    \/ b_pc[r] = "done" /\ b_exit[r] # 0
    \/ b_pc[r] = "done" /\ Len(b_observed[r]) = 0

\* A final run whose klines miss an expected minute.
StrictFinalGap(r) ==
  policy = "binance" /\ b_pc[r] = "done" /\ WindowElapsed(r)
    /\ MissingInPayload # {}

Stdout == IF policy = "hype" THEN h_stdout ELSE c_stdout

\* C11: a fully successful, complete run emits only the final
\* integer; on any fatal condition (validation failure, zero samples, gap
\* abort, strict-final gap, upstream exhaustion) stdout holds null or nothing
\* and never a number.
C11_PrimaryOutputChannel ==
  /\ EndedComplete => OnlyTheInteger(Stdout)
  /\ EndedFatal => ~HasIntLine(Stdout)
  /\ policy = "binance" =>
       \A r \in Runs :
         /\ EndedCompleteRun(r) => OnlyTheInteger(b_stdout[r])
         /\ (EndedFatalRun(r) \/ StrictFinalGap(r)) => ~HasIntLine(b_stdout[r])

----------------------------------------------------------------------------
(* Validation precedes fetch *)

\* The decision time is missing or outside the event window.
BadAnchor ==
  policy = "cmc" /\
    (c_arg.null \/ c_arg.val < EventWindowStart \/ c_arg.val > MarketEndEpoch)

\* The symbol is not listed, or a window flag is given.
BadArgs ==
  policy = "binance" /\
    (b_args.symbol \notin {"BTCUSDT", "ETHUSDT"} \/ b_args.overrides # {})

\* C12: a run whose anchor is missing or outside the allowed event bound,
\* whose symbol is not on the allow-list, or which overrides a fixed window,
\* can only end in a validation error, and at no point of the run has a
\* request been sent to the source.
C12_ValidationPrecedesFetch ==
  /\ BadAnchor =>
       /\ ~c_requested
       /\ c_pc \in {"start", "failed"}
       /\ c_pc = "failed" => (c_error = "validation" /\ c_exit # 0)
  /\ BadArgs =>
       \A r \in Runs :
         /\ ~b_requested[r]
         /\ b_pc[r] \in {"args", "rejected"}
         /\ b_pc[r] = "rejected" => b_exit[r] # 0

\* A run given an unlisted symbol and both window flags has been rejected
\* without a request.
C12_Witness ==
  /\ policy = "binance"
  /\ b_args = [symbol |-> "DOGEUSDT", overrides |-> {"start", "end-open"}]
  /\ \E r \in Runs : b_pc[r] = "rejected" /\ ~b_requested[r] /\ b_exit[r] # 0

----------------------------------------------------------------------------
(* The decision anchor of the cmc engine *)

\* The window has been derived from the decision time.
Resolved ==
  policy = "cmc" /\ c_pc \in {"derived", "fetched", "normalized", "aggregated",
                               "done"}

\* C13: the resolved anchor is the smaller of the supplied decision time and
\* MARKET_END_EPOCH, and it is resolved only from a supplied decision time
\* inside the event window: a decision time outside the window is rejected
\* and never clamped.
C13_AnchorCapping ==
  /\ Resolved =>
       /\ ~c_arg.null
       /\ EventWindowStart <= c_arg.val /\ c_arg.val <= MarketEndEpoch
       /\ c_decision = (IF c_arg.val <= MarketEndEpoch THEN c_arg.val
                        ELSE MarketEndEpoch)
       /\ c_start = c_decision + WindowOffset
  /\ (policy = "cmc" /\ ~c_arg.null /\ c_arg.val > MarketEndEpoch) =>
       /\ c_pc \in {"start", "failed"}
       /\ c_decision = 0
       /\ c_pc = "failed" => c_error = "validation"

\* The last second before the market end has been resolved to itself.
C13_Witness ==
  /\ Resolved
  /\ c_arg = Some(MarketEndEpoch - 1)
  /\ c_decision = MarketEndEpoch - 1

\* The decision time has been validated.
Validated == policy = "cmc" /\ c_pc # "start"

\* The run was rejected by the validation of the decision time.
RejectedAnchor == c_pc = "failed" /\ c_error = "validation" /\ ~c_requested

\* C14: a run is rejected when the decision time is missing, is at or after
\* MARKET_END_EPOCH (the bound itself included) or lies outside the event
\* window 2025-11-07T00:00:00Z..2025-11-14T00:00:00Z; every decision time
\* inside the window and strictly before MARKET_END_EPOCH is accepted.
C14_AnchorBoundaryRejection ==
  Validated =>
    /\ c_arg.null => RejectedAnchor
    /\ (~c_arg.null /\ c_arg.val >= 1763078400) => RejectedAnchor
    /\ (~c_arg.null /\ (c_arg.val < 1762473600 \/ c_arg.val > 1763078400))
         => RejectedAnchor
    /\ (~c_arg.null /\ 1762473600 <= c_arg.val /\ c_arg.val < 1763078400)
         => ~RejectedAnchor

\* A decision time equal to MARKET_END_EPOCH has been rejected.
C14_Witness ==
  /\ policy = "cmc" /\ c_arg = Some(1763078400)
  /\ RejectedAnchor /\ c_stdout = <<NullLine>> /\ c_exit # 0

----------------------------------------------------------------------------
(* The samples of the cmc engine *)

\* The extracted price of raw point i is a number greater than zero.
RawPositive(i) ==
  LET price == ExtractPrice(c_points[i])
  IN price.kind = "num" /\ price.ticks > 0

\* C15: after the normalization every retained sample has a value greater
\* than zero, taken from a raw point with that timestamp whose extracted
\* value is a positive number (a missing, NaN or non-positive value is
\* dropped, never replaced); timestamps are pairwise distinct and inside
\* WINDOW_START <= ts < WINDOW_END, and the samples are in strictly ascending
\* timestamp order.
C15_SampleSetInvariant ==
  CmcNormalized =>
    /\ \A k \in 1..Len(c_samples) :
         /\ c_samples[k].price.kind = "num"
         /\ c_samples[k].price.ticks > 0
         /\ c_start <= c_samples[k].ts /\ c_samples[k].ts < c_end
         /\ \E i \in 1..Len(c_points) :
              /\ RawPositive(i)
              /\ RawTs(i) = c_samples[k].ts
              /\ ExtractPrice(c_points[i]) = c_samples[k].price
    /\ \A k, l \in 1..Len(c_samples) :
         k < l => c_samples[k].ts < c_samples[l].ts
    /\ Len(c_samples) <= Cardinality({i \in 1..Len(c_points) : RawPositive(i)})

\* A payload whose first two points arrive in descending timestamp order and
\* whose third point, inside the window, has no usable value: two samples
\* are retained, in ascending order.
C15_Witness ==
  /\ CmcNormalized
  /\ Len(c_points) = 3 /\ Len(c_samples) = 2
  /\ RawPositive(1) /\ RawPositive(2) /\ ~RawPositive(3)
  /\ RawTs(1) > RawTs(2)
  /\ c_start <= RawTs(3) /\ RawTs(3) < c_end
  /\ c_samples[1].ts = RawTs(2) /\ c_samples[2].ts = RawTs(1)

\* Raw point i survives steps 3 and 4.
RawSurvives(i) == RawPositive(i) /\ c_start <= RawTs(i) /\ RawTs(i) < c_end

\* The sample retained for the timestamp of raw point i.
SampleOf(i) == CHOOSE s \in {c_samples[k] : k \in 1..Len(c_samples)} : s.ts = RawTs(i)

\* C16: when two surviving raw points normalize to the same timestamp (a
\* point keyed in seconds and one keyed in milliseconds of the same second
\* included) and carry different values, the sample retained for that
\* timestamp has the value of the later one in arrival order: the earlier
\* one is dropped and the two are not averaged.
C16_DedupKeepsLater ==
  CmcNormalized =>
    \A i, j \in 1..Len(c_points) :
      (/\ i < j /\ RawSurvives(i) /\ RawSurvives(j)
       /\ RawTs(i) = RawTs(j)
       /\ ExtractPrice(c_points[i]) # ExtractPrice(c_points[j])
       /\ \A l \in (j + 1)..Len(c_points) :
            ~(RawSurvives(l) /\ RawTs(l) = RawTs(j)))
      => /\ Cardinality({k \in 1..Len(c_samples) : c_samples[k].ts = RawTs(j)}) = 1
         /\ SampleOf(j).price = ExtractPrice(c_points[j])
         /\ SampleOf(j).price # ExtractPrice(c_points[i])
         /\ 2 * SampleOf(j).price.ticks #
              ExtractPrice(c_points[i]).ticks + ExtractPrice(c_points[j]).ticks

\* A point keyed in seconds followed by a point keyed in milliseconds of the
\* same second, with another value: the sample has the value of the second.
C16_Witness ==
  /\ CmcNormalized /\ Len(c_points) >= 2
  /\ ~IsMilliseconds(c_points[1].ts) /\ IsMilliseconds(c_points[2].ts)
  /\ c_points[2].ts.u = 999
  /\ RawSurvives(1) /\ RawSurvives(2) /\ RawTs(1) = RawTs(2)
  /\ ExtractPrice(c_points[1]) # ExtractPrice(c_points[2])
  /\ Len(c_samples) = 1
  /\ c_samples[1].price = ExtractPrice(c_points[2])

----------------------------------------------------------------------------
(* The arithmetic laws *)

Applied(op) == policy = "calc" /\ f_op = op /\ f_pc = "applied"

\* C17: a raw timestamp strictly greater than 10,000,000,000 is treated as
\* milliseconds and normalized to floor(ts / 1000); a raw timestamp less than
\* or equal to 10,000,000,000 is kept unchanged as seconds; the normalized
\* timestamp is a whole number of seconds.  The timestamp 1000 * k + u is
\* held as [k, u], so that floor(ts / 1000) is k.
C17_UnitDetection ==
  Applied("normalize_ts") =>
    /\ (f_arg.k > 10000000 \/ (f_arg.k = 10000000 /\ f_arg.u > 0)) =>
         /\ 1000 * f_out.k + f_out.u = f_arg.k
         /\ f_out.u \in 0..999
    /\ (f_arg.k < 10000000 \/ (f_arg.k = 10000000 /\ f_arg.u = 0)) =>
         f_out = f_arg
    /\ f_out.k \in Nat /\ f_out.u \in 0..999

\* The timestamp 10,000,000,000 itself has been kept as seconds.
C17_Witness ==
  /\ Applied("normalize_ts")
  /\ f_arg = [k |-> 10000000, u |-> 0]
  /\ f_out = [k |-> 10000000, u |-> 0]

\* 100 * s for the mean s = num/den ticks, as the quotient X/D; its integer
\* part is X \div D.
ScaledNum == 100 * f_arg.num
ScaledDen == f_arg.den * 1000

\* C18: for every non-negative scalar s the half-up result is
\* floor(100 * s + 0.5), the integer r with r <= 100 * s + 0.5 < r + 1; a
\* scaled value whose fractional part is exactly 0.5 rounds up to the next
\* integer whether its integer part is even or odd, and 12.345 gives 1235.
C18_HalfUpRounding ==
  Applied("half_up") =>
    /\ 2 * ScaledDen * f_out <= 2 * ScaledNum + ScaledDen
    /\ 2 * ScaledNum + ScaledDen < 2 * ScaledDen * (f_out + 1)
    /\ (2 * (ScaledNum % ScaledDen) = ScaledDen) =>
         f_out = (ScaledNum \div ScaledDen) + 1
    /\ (f_arg = [num |-> 12345, den |-> 1]) => f_out = 1235
    /\ (f_arg = [num |-> 12335, den |-> 1]) => f_out = 1234

\* 12.345, whose scaled value 1234.5 has an even integer part, has been
\* rounded to 1235.
C18_Witness ==
  /\ Applied("half_up")
  /\ f_arg = [num |-> 12345, den |-> 1]
  /\ f_out = 1235

\* C19: for every scaled value x = num/den the ceiling result is the
\* smallest integer greater than or equal to x: an x that is an integer is
\* returned unchanged, and an x with a fractional part, however small, gives
\* floor(x) + 1; 100.001 gives 101.
C19_CeilingRounding ==
  Applied("ceil") =>
    /\ f_out * f_arg.den >= f_arg.num
    /\ (f_out - 1) * f_arg.den < f_arg.num
    /\ (f_arg.num % f_arg.den = 0) => f_out = f_arg.num \div f_arg.den
    /\ (f_arg.num % f_arg.den # 0) => f_out = (f_arg.num \div f_arg.den) + 1
    /\ (f_arg = [num |-> 100001, den |-> 1000]) => f_out = 101
    /\ (f_arg = [num |-> 100000, den |-> 1000]) => f_out = 100

\* 100.001 has been rounded to 101.
C19_Witness ==
  /\ Applied("ceil")
  /\ f_arg = [num |-> 100001, den |-> 1000]
  /\ f_out = 101

\* The prices of the input list, in timestamp order.
PriceAt(i) == f_arg[i].price.ticks
Below(v) == Cardinality({i \in 1..Len(f_arg) : PriceAt(i) < v})
Above(v) == Cardinality({i \in 1..Len(f_arg) : PriceAt(i) > v})

\* The values other than those at i and j that are at most the one at i, and
\* those that are at least the one at j.
AtMost(i, j) ==
  Cardinality({l \in 1..Len(f_arg) \ {i, j} : PriceAt(l) <= PriceAt(i)})
AtLeast(i, j) ==
  Cardinality({l \in 1..Len(f_arg) \ {i, j} : PriceAt(l) >= PriceAt(j)})

\* The list of units 1.000, 2.000, ... in some timestamp order.
HasUnits(n) ==
  Len(f_arg) = n /\ {PriceAt(i) : i \in 1..n} = {1000 * v : v \in 1..n}

\* C20: for a non-empty list of n values sorted ascending the median is the
\* element at index (n-1)/2 when n is odd and the exact average of the
\* elements at indices n/2-1 and n/2 when n is even (indices from 0); the
\* result depends on the values only, whatever their timestamp order: for odd
\* n it is a value with at most (n-1)/2 values below and as many above, for
\* even n the average of a lower and an upper value, of the other values
\* n/2-1 being at most the lower and n/2-1 at least the upper.  [1,2,3]
\* gives 2 and [1,2,3,4] gives 2.5.
C20_MedianParity ==
  Applied("median") =>
    LET n == Len(f_arg)
        sorted == SortedPrices(f_arg)
    IN /\ \A r \in 1..(n - 1) : sorted[r] <= sorted[r + 1]
       /\ (n % 2 = 1) =>
            /\ f_out.den = 1 /\ f_out.num = sorted[((n - 1) \div 2) + 1]
            /\ Below(f_out.num) <= (n - 1) \div 2
            /\ Above(f_out.num) <= (n - 1) \div 2
            /\ \E i \in 1..n : PriceAt(i) = f_out.num
       /\ (n % 2 = 0) =>
            /\ f_out.den = 2
            /\ f_out.num = sorted[(n \div 2 - 1) + 1] + sorted[(n \div 2) + 1]
            /\ \E i, j \in 1..n :
                 /\ i # j /\ PriceAt(i) <= PriceAt(j)
                 /\ f_out.num = PriceAt(i) + PriceAt(j)
                 /\ AtMost(i, j) >= n \div 2 - 1
                 /\ AtLeast(i, j) >= n \div 2 - 1
       /\ HasUnits(3) => f_out = [num |-> 2000, den |-> 1]
       /\ HasUnits(4) => f_out = [num |-> 5000, den |-> 2]

\* The values 1, 2, 3, 4 arriving as 3, 1, 4, 2 have the median 2.5.
C20_Witness ==
  /\ Applied("median")
  /\ Len(f_arg) = 4
  /\ <<PriceAt(1), PriceAt(2), PriceAt(3), PriceAt(4)>> = <<3000, 1000, 4000, 2000>>
  /\ f_out = [num |-> 5000, den |-> 2]

----------------------------------------------------------------------------
(* Grid counts *)

\* A binance run of the source's window whose bound is END_OPEN_MS.
FinalWindowRun(r) ==
  /\ policy = "binance" /\ b_rules.interval = 60000
  /\ b_pc[r] \in {"observed", "validated", "computed", "done"}
  /\ b_effEnd[r] = b_rules.endOpen

\* A hype run of the source's rules whose grid has been filled.
FilledMinuteGrid ==
  policy = "hype" /\ h_rules.cadence = 60000
    /\ h_pc \in {"filled", "averaged", "done"}

\* C21: the closed window from 2025-10-29T18:00:00Z to the last included
\* open time 2025-10-30T05:59:00Z at a cadence of 60 s contains both ends and
\* has (end - start)/cadence + 1 = 720 slots; the half-open 12-hour window
\* [T_s, T_e) has the grid T_s, T_s + 1m, ..., T_e - 1m, also of 720 slots,
\* and T_e is not a slot.
C21_ExpectedGridCount ==
  /\ \A r \in Runs :
       (policy = "binance" /\ FinalWindowRun(r)) =>
         /\ b_rules.endOpen - b_rules.start = (1761803940 - 1761760800) * 1000
         /\ b_expected[r] = 720
         /\ b_expected[r] = (b_rules.endOpen - b_rules.start) \div 60000 + 1
         /\ (Len(b_observed[r]) = 720 /\ b_missing[r] = {}
               /\ b_pc[r] \in {"validated", "computed", "done"}) =>
              /\ b_observed[r][1].openTime = b_rules.start
              /\ b_observed[r][720].openTime = b_rules.endOpen
  /\ FilledMinuteGrid =>
       /\ h_Te - h_Ts = 12 * 60 * 60000
       /\ Len(h_closes) = 720
       /\ \A i \in 1..Len(h_closes) : h_closes[i].t = h_Ts + (i - 1) * 60000
       /\ h_closes[1].t = h_Ts
       /\ h_closes[Len(h_closes)].t = h_Te - 60000
       /\ \A i \in 1..Len(h_closes) : h_closes[i].t # h_Te

\* A final run of the source's window has 720 klines, the first opening at
\* the start of the window and the last at its last included open time.
C21_Witness ==
  /\ policy = "binance"
  /\ \E r \in Runs :
       /\ FinalWindowRun(r) /\ b_pc[r] = "done"
       /\ b_expected[r] = 720 /\ Len(b_observed[r]) = 720
       /\ b_observed[r][1].openTime = b_rules.start
       /\ b_observed[r][720].openTime = b_rules.endOpen

----------------------------------------------------------------------------
(* The temporary TWAP of the binance engine *)

\* floor(now to minute) - INTERVAL_MS, written out.
LastClosedAt(r) ==
  (b_now[r] - (b_now[r] % b_rules.interval)) - b_rules.interval

\* C22: at any run time now, effective_end_open_ms is the smaller of
\* window_end_open_ms and floor_to_minute(now) - 60000, and only candles
\* with openTime <= effective_end_open_ms are used, so the still-forming
\* minute is never included; if effective_end_open_ms < window_start_ms then
\* observed_count = 0, result = null and complete = false; otherwise
\* expected_partial_count = (effective_end_open_ms - window_start_ms)/60000 + 1.
C22_TemporaryBound ==
  policy = "binance" =>
    \A r \in Runs :
      /\ b_pc[r] \in {"bounded", "observed", "validated", "computed", "done"} =>
           /\ b_effEnd[r] <= b_rules.endOpen
           /\ b_effEnd[r] <= LastClosedAt(r)
           /\ b_effEnd[r] \in {b_rules.endOpen, LastClosedAt(r)}
      /\ b_pc[r] \in {"observed", "validated", "computed", "done"} =>
           /\ \A i \in 1..Len(b_observed[r]) :
                /\ b_observed[r][i].openTime <= b_effEnd[r]
                /\ b_observed[r][i].openTime + b_rules.interval <= b_now[r]
           /\ b_effEnd[r] < b_rules.start =>
                (Len(b_observed[r]) = 0 /\ b_expected[r] = 0 /\ ~b_requested[r])
           /\ b_effEnd[r] >= b_rules.start =>
                b_expected[r] =
                  (b_effEnd[r] - b_rules.start) \div b_rules.interval + 1
      /\ (b_pc[r] \in {"computed", "done"} /\ b_effEnd[r] < b_rules.start) =>
           (b_result[r].null /\ b_mean[r].null /\ ~b_complete[r])

\* A run within the third minute of the window, on an exchange that already
\* returns the forming minute: two klines are used of an expected two.
C22_Witness ==
  /\ policy = "binance"
  /\ \E r \in Runs :
       /\ b_pc[r] = "done"
       /\ b_effEnd[r] = LastClosedAt(r) /\ b_effEnd[r] < b_rules.endOpen
       /\ b_effEnd[r] >= b_rules.start
       /\ \E i \in 1..Len(b_klines) : b_klines[i].openTime > b_effEnd[r]
       /\ b_expected[r] = 2 /\ Len(b_observed[r]) = 2

----------------------------------------------------------------------------
(* The earliest-answerable guard of the hype engine *)

\* The guard has been passed or has refused.
Guarded == policy = "hype" /\ h_pc \notin {"start", "resolved"}

RefusedTooSoon == h_pc = "failed" /\ h_status = "answered too soon"

\* C23: with T_e = T_s + 12 h, if the current time is before T_e + 5 minutes
\* and --allow-early is not set, the run exits non-zero ("answered too soon")
\* without printing an integer; with --allow-early set, or once the current
\* time is at or after T_e + 5 minutes, the run proceeds to the computation.
C23_EarliestAnswerableGuard ==
  Guarded =>
    /\ h_Te = h_Ts + h_rules.slots * h_rules.cadence
    /\ h_rules.cadence = 60000 =>
         (h_Te = h_Ts + 12 * 3600000 /\ h_rules.grace = 5 * 60000)
    /\ (h_now < h_Te + h_rules.grace /\ ~h_allowEarly) =>
         /\ RefusedTooSoon
         /\ h_exit # 0
         /\ h_stdout = <<>>
         /\ h_closes = <<>> /\ DOMAIN h_candles = {}
    /\ (h_allowEarly \/ h_now >= h_Te + h_rules.grace) => ~RefusedTooSoon
    /\ h_pc = "done" =>
         (h_allowEarly \/ h_now >= h_Te + h_rules.grace)

\* A run started at T_e + 5 minutes exactly, without --allow-early, has
\* printed its integer.
C23_Witness ==
  /\ policy = "hype" /\ h_pc = "done" /\ ~h_allowEarly
  /\ h_rules.cadence = 60000
  /\ h_now = h_Te + 5 * 60000
  /\ Len(h_stdout) = 1 /\ h_stdout[1].kind = "int"

----------------------------------------------------------------------------
(* main() of the TVL scripts *)

\* The slugs of the first n projects, and the project handled last.
SlugsUpTo(n) == {Projects(t_script)[k].slug : k \in 1..n}
LastSlug == Projects(t_script)[t_i - 1].slug

\* The response of the project handled last has a listed chain without a
\* tvl array, on which the computation throws.
LastComputationThrows ==
  \E chain \in DOMAIN t_data :
    /\ ~t_data[chain].hasTvl
    /\ IF t_script = "index" THEN chain[1] \in MAJOR_SUPERCHAIN_L2S
       ELSE Len(chain) = 1 /\ chain[1] \in MAJOR_SUPERCHAIN_L2S

\* C24: the projects of PROJECTS are processed one at a time in order; when
\* fetching or computing one project fails, results[slug] is the string
\* 'Error processing project', the loop goes on and every later project is
\* still processed; when main() finishes, results holds exactly one entry
\* for every project slug.
C24_PerProjectErrorIsolation ==
  policy = "tvl" =>
    /\ t_i \in 1..(ProjectCount + 1)
    /\ t_pc \in {"loop", "fetched"} => DOMAIN t_results = SlugsUpTo(t_i - 1)
    /\ t_pc = "fetched" => t_i <= ProjectCount
    /\ t_pc = "done" =>
         /\ t_i = ProjectCount + 1
         /\ DOMAIN t_results = SlugsUpTo(ProjectCount)
         /\ Cardinality(DOMAIN t_results) = ProjectCount
    /\ (t_pc \in {"loop", "done"} /\ t_i > 1) =>
         /\ t_results[LastSlug].kind = "error" <=> t_tEnd.null
         /\ LastComputationThrows => t_results[LastSlug].kind = "error"
         /\ (t_data = NoChains /\ t_tEnd.null) => t_results[LastSlug].kind = "error"
    /\ \A slug \in DOMAIN t_results :
         t_results[slug].kind \in {"error", "number", "object"}

\* main() has finished after the first project failed: its entry is the
\* error string and the second project has its own result.
C24_Witness ==
  /\ policy = "tvl" /\ t_pc = "done"
  /\ t_results[Projects(t_script)[1].slug].kind = "error"
  /\ t_results[Projects(t_script)[2].slug].kind \in {"number", "object"}
  /\ DOMAIN t_results = {"rocket-pool", "superform"}

----------------------------------------------------------------------------
(* The trailing average of the later TVL script *)

\* The chains of the response whose key is exactly a listed name.
ExactlyListed == {chain \in DOMAIN t_data : Len(chain) = 1 /\ chain[1] \in MAJOR_SUPERCHAIN_L2S}

\* The positions of chain's items dated d, and the amount of the first.
ItemsOn(chain, d) ==
  {k \in 1..Len(t_data[chain].tvl) : t_data[chain].tvl[k].date = d}
FirstAmountOn(chain, d) ==
  t_data[chain].tvl[CHOOSE k \in ItemsOn(chain, d) :
                      \A l \in ItemsOn(chain, d) : k <= l].totalLiquidityUSD

\* The 7 UTC dates endDate-6 .. endDate, those that have data, and the total
\* of a day.
SevenDates(endDate) == {endDate - i * 86400 : i \in 0..6}
HasData(d) == \E chain \in ExactlyListed : ItemsOn(chain, d) # {}
DaysWithData(endDate) == {d \in SevenDates(endDate) : HasData(d)}
TotalOn(d) ==
  LET chains == {chain \in ExactlyListed : ItemsOn(chain, d) # {}}
  IN SumOver(chains, [chain \in chains |-> FirstAmountOn(chain, d)])
SumOfDays(endDate) ==
  SumOver(DaysWithData(endDate),
          [d \in DaysWithData(endDate) |-> TotalOn(d)])

\* The later script has computed the averages of a response.
LaterAveraged == policy = "tvl" /\ t_script = "later" /\ ~t_tEnd.null

\* C25: in the later script calculateTrailingAverageTvl sums, over the 7 UTC
\* dates endDate-6 .. endDate, the day totals returned by getTvlOnDate and
\* divides by the number of days that have data; a day has data iff at least
\* one chain whose key is exactly in MAJOR_SUPERCHAIN_L2S has an entry whose
\* date equals that day's 00:00:00 UTC epoch second; days without data are
\* left out of the sum and of the divisor.
C25_TrailingAverageMissingDays ==
  LaterAveraged =>
    /\ Cardinality(DaysWithData(1749686400)) > 0 =>
         t_tEnd.val = [num |-> SumOfDays(1749686400),
                       den |-> Cardinality(DaysWithData(1749686400))]
    /\ Cardinality(DaysWithData(1742428800)) > 0 =>
         t_tStart.val = [num |-> SumOfDays(1742428800),
                         den |-> Cardinality(DaysWithData(1742428800))]

\* A response with data on two of the seven days up to the end date: the
\* average is the sum of the two day totals over 2.
C25_Witness ==
  /\ LaterAveraged
  /\ Cardinality(DaysWithData(1749686400)) = 2
  /\ t_tEnd.val.den = 2
  /\ t_tEnd.val.num = SumOfDays(1749686400) /\ t_tEnd.val.num > 0

----------------------------------------------------------------------------
(* The clamp on a validated anchor *)

\* C26: for every operator-supplied anchor that passes the validation
\* against the allowed event window the resolved anchor equals the supplied
\* anchor (the minimum of the supplied value and the upper bound is the
\* supplied value), so the window starts at the supplied anchor plus the
\* offset.  The capping guard of the engagement-cutoff metric, which has no
\* validation, leaves every anchor up to the market end unchanged, and its
\* window is the hard-coded one.
C26_ClampNeverFiresOnValidated ==
  /\ Resolved =>
       /\ c_decision = c_arg.val
       /\ c_start = c_arg.val + 43200
       /\ c_end = c_arg.val + 86400
  /\ (Applied("resolve_anchor") /\ ~f_arg.null /\ f_arg.val <= 1763078400) =>
       f_out = [decision |-> f_arg.val, start |-> 1763121600,
                end |-> 1763164800]
  /\ (Applied("resolve_anchor") /\ f_arg.null) =>
       f_out = [decision |-> 1763078400, start |-> 1763121600,
                end |-> 1763164800]

\* The last second before the market end has been validated and its window
\* starts 12 hours after it.
C26_Witness ==
  /\ Resolved
  /\ c_arg = Some(1763078399)
  /\ c_decision = 1763078399 /\ c_start = 1763078399 + 43200

----------------------------------------------------------------------------
(* Grid accounting *)

\* The expected timestamps of the hype grid and the rows by provenance.
GridTimes == {h_Ts + i * h_rules.cadence : i \in 0..(h_rules.slots - 1)}
RowsOf(source) == {i \in 1..Len(h_closes) : h_closes[i].source = source}

\* The grid has been built, or the run was given up while building it.
GridBuilt ==
  policy = "hype" /\ h_pc \in {"filled", "averaged", "done"}

\* Every expected minute of the whole binance window is among the observed
\* klines of run r.
AllSlotsActual(r) ==
  \A m \in 0..(b_rules.finalCount - 1) :
    \E i \in 1..Len(b_observed[r]) :
      b_observed[r][i].openTime = b_rules.start + m * b_rules.interval

\* C27: every grid returned by the fill has exactly expected_count slots
\* with the timestamps window.start + i * cadence in ascending order; the
\* number of slots marked actual is the number of retained samples that lie
\* on grid timestamps, and actual count + filled count = expected_count; a
\* grid with zero filled slots is reported complete and contiguous.
C27_GridAccounting ==
  /\ GridBuilt =>
       /\ Len(h_closes) = h_rules.slots
       /\ \A i \in 1..Len(h_closes) :
            /\ h_closes[i].t = h_Ts + (i - 1) * h_rules.cadence
            /\ h_closes[i].source \in {"actual", "filled"}
            /\ h_closes[i].source = "actual" <=> h_closes[i].t \in DOMAIN h_candles
       /\ \A i \in 1..(Len(h_closes) - 1) : h_closes[i].t < h_closes[i + 1].t
       /\ Cardinality(RowsOf("actual")) = Cardinality(DOMAIN h_candles \cap GridTimes)
       /\ Cardinality(RowsOf("actual")) + Cardinality(RowsOf("filled"))
            = h_rules.slots
  /\ (policy = "hype" /\ h_pc \in {"filled", "averaged", "done", "failed"}
        /\ GridTimes \subseteq DOMAIN h_candles) =>
       /\ GridBuilt
       /\ RowsOf("filled") = {}
       /\ h_pc = "done" => (Len(h_stdout) = 1 /\ h_stdout[1].kind = "int")
  /\ policy = "binance" =>
       \A r \in Runs :
         (b_pc[r] \in {"computed", "done"} /\ AllSlotsActual(r)) =>
           /\ Len(b_observed[r]) = b_rules.finalCount
           /\ b_complete[r] /\ b_contiguous[r] /\ b_missing[r] = {}

\* A grid of the source's 720 minutes with both actual and filled rows.
C27_Witness ==
  /\ GridBuilt /\ h_rules.slots = 720
  /\ RowsOf("filled") # {} /\ RowsOf("actual") # {}
  /\ Cardinality(RowsOf("actual")) + Cardinality(RowsOf("filled")) = 720

----------------------------------------------------------------------------
(* The sign of the emitted integer *)

\* The integers printed on the standard output of the engine in use.
EmittedIntegers ==
  LET ints(out) == {out[i].n : i \in {j \in 1..Len(out) : out[j].kind = "int"}}
  IN CASE policy = "hype" -> ints(h_stdout)
       [] policy = "binance" -> UNION {ints(b_stdout[r]) : r \in Runs}
       [] policy = "cmc" -> ints(c_stdout)
       [] OTHER -> {}

\* A scalar num / (den * 1000) lies below 0.005.
BelowHalfCent(num, den) == 200 * num < den * 1000

\* C28: every aggregated value being greater than zero, an emitted final
\* integer is never negative; under the ceiling law it is at least 1, and
\* under the half-up law it is 0 exactly when the scalar is below 0.005.
C28_EmittedIntegerSign ==
  /\ \A n \in EmittedIntegers : n >= 0
  /\ (policy = "cmc" /\ c_pc \in {"aggregated", "done"}) =>
       /\ \A k \in 1..Len(c_samples) : c_samples[k].price.ticks > 0
       /\ c_median.num > 0 /\ c_median.den > 0
  /\ (policy = "cmc" /\ c_pc = "done") =>
       /\ c_result.val >= 1
       /\ c_stdout = <<[kind |-> "int", n |-> c_result.val]>>
  /\ (policy = "hype" /\ h_pc = "done") =>
       /\ h_twap.num > 0
       /\ \A n \in EmittedIntegers :
            n = 0 <=> BelowHalfCent(h_twap.num, h_twap.den)
  /\ policy = "binance" =>
       \A r \in Runs :
         (b_pc[r] \in {"computed", "done"} /\ ~b_result[r].null) =>
           /\ b_mean[r].val.num > 0
           /\ b_result[r].val >= 0
           /\ b_result[r].val = 0
                <=> BelowHalfCent(b_mean[r].val.num, b_mean[r].val.den)
  /\ (Applied("ceil") /\ f_arg.num > 0) => f_out >= 1
  /\ Applied("half_up") =>
       /\ f_out >= 0
       /\ f_out = 0 <=> BelowHalfCent(f_arg.num, f_arg.den)

\* A positive scalar below 0.005 rounds half-up to 0.
C28_Witness ==
  /\ Applied("half_up")
  /\ f_arg.num > 0 /\ BelowHalfCent(f_arg.num, f_arg.den)
  /\ f_out = 0

----------------------------------------------------------------------------
(* Arrival order *)

\* The fetched points in another arrival order.
Rearranged(p) == [i \in 1..Len(c_points) |-> c_points[p[i]]]
ArrivalOrders == Permutations(1..Len(c_points))

\* No two fetched points have the same normalized timestamp.
DistinctNormalizedTs ==
  \A i, j \in 1..Len(c_points) : i # j => RawTs(i) # RawTs(j)

\* C29: for a list of raw points whose normalized timestamps are pairwise
\* distinct, the normalization returns the same ordered sample set for every
\* permutation of the list; only when two points share a normalized
\* timestamp can the arrival order change the output.
C29_ArrivalOrderIndependence ==
  CmcNormalized =>
    /\ DistinctNormalizedTs =>
         \A p \in ArrivalOrders :
           Normalize(Rearranged(p), c_start, c_end) = c_samples
    /\ \A p \in ArrivalOrders :
         Normalize(Rearranged(p), c_start, c_end) # c_samples =>
           \E i, j \in 1..Len(c_points) :
             /\ i # j /\ RawTs(i) = RawTs(j)
             /\ RawSurvives(i) /\ RawSurvives(j)
             /\ ExtractPrice(c_points[i]) # ExtractPrice(c_points[j])

\* Three points with distinct timestamps that arrive in descending order, all
\* retained in ascending order.
C29_Witness ==
  /\ CmcNormalized /\ Len(c_points) = 3 /\ DistinctNormalizedTs
  /\ RawTs(1) > RawTs(2) /\ RawTs(2) > RawTs(3)
  /\ Len(c_samples) = 3
  /\ c_samples[1].ts = RawTs(3) /\ c_samples[3].ts = RawTs(1)

----------------------------------------------------------------------------
(* The two trailing-average scripts *)

\* No key of chainTvls contains a hyphen, and every one of the 7 trailing
\* days has an entry of a listed chain.
NoHyphenatedKey == \A chain \in DOMAIN t_data : Len(chain) = 1
EveryDayHasData(endDate) == \A d \in SevenDates(endDate) : HasData(d)

\* Either script has computed the averages of a response.
Averaged(script) == policy = "tvl" /\ t_script = script /\ ~t_tEnd.null

\* C30: for every response in which no chainTvls key contains a hyphen and
\* every one of the 7 trailing days has an entry for at least one listed
\* chain, calculateTrailingAverageTvl of src/node/index.ts (the sum of the 7
\* day totals over 7) returns the same value as the later version (the sum
\* over the number of days with data): both return the sum of the 7 day
\* totals over 7.
C30_TrailingAverageEquivalence ==
  \A script \in {"index", "later"} :
    (Averaged(script) /\ NoHyphenatedKey) =>
      /\ EveryDayHasData(1749686400) =>
           t_tEnd.val = [num |-> SumOfDays(1749686400), den |-> 7]
      /\ EveryDayHasData(1742428800) =>
           t_tStart.val = [num |-> SumOfDays(1742428800), den |-> 7]

\* src/node/index.ts has averaged a response with two listed chains, both
\* with an entry on each of the 7 days up to the end date.
C30_Witness ==
  /\ Averaged("index") /\ NoHyphenatedKey
  /\ EveryDayHasData(1749686400)
  /\ Cardinality(ExactlyListed) = 2
  /\ t_tEnd.val.den = 7 /\ t_tEnd.val.num = SumOfDays(1749686400)
  /\ t_tEnd.val.num > 0

====
